---- MODULE Spec2Model ----
(***************************************************************************)
(* Verification model of the clickup_reminders repository: the chat        *)
(* callback reconciler (telegram_reminder_service.py, core/engine.py), the *)
(* completion ledger and voice cycle (reminder_system.py), the SMS reply   *)
(* processor (process_sms_replies.py) and the response classifiers.        *)
(*                                                                         *)
(* The status labels of the source are Russian words; the model writes     *)
(* them in English:  DONE = "ВЫПОЛНЕНО", NOT_DONE = "НЕ_ВЫПОЛНЕНО",        *)
(* IN_PROGRESS = "В_РАБОТЕ", CALL_BACK = "ПЕРЕЗВОНИТЬ", UNCLEAR = "НЕЯСНО".*)
(* Time is counted in minutes since Monday 00:00 of the configured zone.   *)
(***************************************************************************)
EXTENDS Integers, Sequences, FiniteSets, TLC

\* ------------------------------------------------------------------ bounds
\* chat callbacks delivered to handle_callback in one behaviour
MaxDeliveries == 4
\* operations in one behaviour of the voice cycle and its peers
MaxCycles == 2

\* ---------------------------------------------------------------- universe
Tasks == {"t1", "t2"}
CallbackIds == {"cb1", "cb2", "cb3"}
NoChat == ""
Chats == {"chat0", "chat1", "group"}
NoDue == 0
Labels == {"DONE", "NOT_DONE", "IN_PROGRESS", "CALL_BACK", "UNCLEAR"}

\* the order in which the tracker lists the tasks
TaskOrder == <<"t1", "t2">>
\* the task names the tracker may report
TaskNames == {"call supplier", "call supplier (edited)"}
TaskName(task_id) == "call supplier"

MinutesPerDay == 24 * 60
\* Mon 11:00 (inside working hours) and Sat 17:00 (outside, one hour
\* before the end hour): the instants the clock visits
Times == {11 * 60, 5 * MinutesPerDay + 17 * 60}
\* t1 is overdue from the start (Mon 09:00), t2 falls due on Tue 09:00
InitialDue == [t \in Tasks |-> IF t = "t1" THEN 9 * 60 ELSE MinutesPerDay + 9 * 60]
\* status of a task nobody has touched yet
InitialStatus == "open"

VARIABLES
    now,                     \* wall clock, minutes since Monday 00:00
    config,                  \* the service configuration, fixed at start
    trackerStatus,           \* tracker: status string of every task
    trackerDue,              \* tracker: due date of every task (NoDue = none)
    comments,                \* tracker: comments of every task, oldest first
    callback_log,            \* the decision log file, one entry per line
    processed_callback_ids,  \* TelegramReminderService._processed_callback_ids
    default_chat_id,         \* TelegramReminderService.default_chat_id
    chat_id_cache,           \* the persisted chat id file
    chat_out,                \* chat transport: calls made so far
    recent_user_actions,     \* TelegramReminderService._recent_user_actions
    recent_failed_actions,   \* TelegramReminderService._recent_failed_actions
    completed_tasks,         \* the ledger file completed_tasks.json
    cycles,                  \* history: number of voice runs and SMS replies
    probe,                   \* history: the last classifier call and its result
    deliveries,              \* history: number of handle_callback calls
    applied,                 \* history: successful tracker writes per callback id
    everSuccess,             \* history: ids for which a success entry was appended
    restartSeen,             \* history: ids logged success before some restart
    last,                    \* history: the last operation and its outcome
    feed,                    \* chat transport: the updates not yet confirmed
    poller,                  \* the poll loop: its position, offset and batch
    last_delivery_stats,     \* TelegramReminderService._last_delivery_stats
    unreported,              \* history: the actions registered since the last summary
    writers,                 \* the processes inside _mark_task_completed
    peer                     \* the in-memory state of the service instance not running

vars == <<now, config, trackerStatus, trackerDue, comments, callback_log,
          processed_callback_ids, default_chat_id, chat_id_cache, chat_out,
          recent_user_actions, recent_failed_actions, completed_tasks, cycles,
          probe, deliveries, applied, everSuccess, restartSeen, last, feed, poller,
          last_delivery_stats, unreported, writers, peer>>

trackerVars == <<trackerStatus, trackerDue, comments>>
serviceVars == <<callback_log, processed_callback_ids, default_chat_id,
                 chat_id_cache, chat_out, recent_user_actions,
                 recent_failed_actions, last_delivery_stats>>
historyVars == <<deliveries, applied, everSuccess, restartSeen, unreported>>
processVars == <<writers, peer>>
cycleVars == <<completed_tasks, cycles, probe>>

\* The record kept of the last operation: which tasks its due-task fetch
\* returned, which tasks its calls covered, the update requests it sent.
LastOp(op, cb, outcome, fetched, covered, updates) ==
    [op |-> op, cb |-> cb, outcome |-> outcome, fetched |-> fetched,
     covered |-> covered, updates |-> updates]

\* The poll loop of the bot (main) and of poll_updates_for: where it is
\* ("down": not running, "fetch": about to call get_updates, "handle":
\* inside the for loop, "crashed": left by an exception), its offset, the
\* fetched updates, how many of them the for loop has passed,
\* last_update_id; and, as history, the update ids in the order they were
\* handled and the ids fetched by the batches before this one.
NoOffset == 0
PollerState(pc, offset, updates, index, last_update_id, handled, earlier) ==
    [pc |-> pc, offset |-> offset, updates |-> updates, index |-> index,
     last_update_id |-> last_update_id, handled |-> handled, earlier |-> earlier]
UpdateIds(updates) == {updates[i].update_id : i \in DOMAIN updates}
\* the loop is gone with its process; offset and updates are its locals
PollerDown(p) ==
    PollerState("down", NoOffset, <<>>, 0, NoOffset, p.handled,
                p.earlier \cup UpdateIds(p.updates))

\* ----------------------------------------------------------------- strings
\* str.strip() and str.upper() on the texts the model uses
Strip(text) == IF text = " DONE " THEN "DONE" ELSE text
Upper(text) ==
    CASE text = "done"  -> "DONE"
      [] text = "Done." -> "DONE."
      [] OTHER          -> text

\* key.replace("_", " ").lower() on the keys of the buttons
NormalizeKey(key) ==
    CASE key = "POSTPONE"    -> "postpone"
      [] key = "DONE"        -> "done"
      [] key = "NOT_DONE"    -> "not done"
      [] key = "IN_PROGRESS" -> "in progress"
      [] key = "UNCLEAR"     -> "unclear"
      [] key = "CALL_BACK"   -> "call back"
      [] OTHER               -> key

\* ------------------------------------------------- service configuration
\* _resolve_callback_log_max_bytes: 5 MiB when nothing is configured
DefaultCallbackLogMaxBytes == 5 * 1024 * 1024
\* _resolve_callback_log_max_entries: 5000 when nothing is configured
DefaultCallbackLogMaxEntries == 5000
\* size of one line of the log file, in the unit of callback_log_max_bytes
LineSize(entry) == 1

LogConfig(path_set, limits) ==
    [log_path_set |-> path_set,        \* FALSE: telegram.callback_log_path = ""
     callback_log_max_bytes |-> limits[1],
     callback_log_max_entries |-> limits[2],
     configured_default_chat |-> NoChat,  \* credentials telegram_chat_id
     group_chat_id |-> "group"]
DefaultLogLimits == <<DefaultCallbackLogMaxBytes, DefaultCallbackLogMaxEntries>>
\* <<callback_log_max_mb, callback_log_max_entries>> as configured: log
\* removed on every append, log dropped when over one line, log cut to
\* its last line when over one line, and the defaults
LogLimits ==
    {<<0, DefaultCallbackLogMaxEntries>>, <<1, 0>>, <<1, 1>>, DefaultLogLimits}
DefaultConfig == LogConfig(TRUE, DefaultLogLimits)
\* without a log path the limits are never read
Configs ==
    {LogConfig(TRUE, l) : l \in LogLimits} \cup {LogConfig(FALSE, DefaultLogLimits)}

\* _build_status_actions: the three default buttons and one configured
\* postpone button (operation "postpone", postpone_hours 2)
status_action_map ==
    [code \in {"d", "n", "p", "h"} |->
        CASE code = "d" -> [key |-> "DONE", operation |-> "status", postpone_hours |-> 0]
          [] code = "n" -> [key |-> "NOT_DONE", operation |-> "status", postpone_hours |-> 0]
          [] code = "p" -> [key |-> "IN_PROGRESS", operation |-> "status", postpone_hours |-> 0]
          [] OTHER      -> [key |-> "POSTPONE", operation |-> "postpone", postpone_hours |-> 2]]

\* --------------------------------------------------------- status mapping
\* The "clickup" section of config.json as far as the status tables read
\* it: status_mapping and the per-label keys, each of which may be absent.
Absent == "<absent>"
ClickupSection(status_mapping, completed, pending, in_progress, unclear, callback) ==
    [status_mapping |-> status_mapping, completed_status |-> completed,
     pending_status |-> pending, in_progress_status |-> in_progress,
     unclear_status |-> unclear, callback_status |-> callback,
     cancelled_status |-> Absent]
\* the empty section: {}
EmptySection == ClickupSection(<<>>, Absent, Absent, Absent, Absent, Absent)
ClickupSections ==
    {EmptySection,
     [EmptySection EXCEPT !.status_mapping =
         [l \in Labels |-> IF l = "DONE" THEN "closed" ELSE "backlog"]],
     [EmptySection EXCEPT !.status_mapping = [k \in {"done"} |-> "closed"]],
     [EmptySection EXCEPT !.completed_status = "finished", !.pending_status = "backlog"],
     [EmptySection EXCEPT !.unclear_status = "review", !.callback_status = "waiting"],
     [EmptySection EXCEPT !.in_progress_status = ""]}

\* dict.get(field, default) on the section
SectionGet(section, field, default) ==
    IF section[field] = Absent THEN default ELSE section[field]
\* {key.upper(): value for key, value in status_mapping.items()}
UpperKeys(mapping) ==
    [k \in {Upper(j) : j \in DOMAIN mapping} |->
        mapping[CHOOSE j \in DOMAIN mapping : Upper(j) = k]]
\* dict.setdefault(key, value)
SetDefault(mapping, key, value) ==
    [k \in DOMAIN mapping \cup {key} |-> IF k \in DOMAIN mapping THEN mapping[k] ELSE value]
\* dict.get(key): "" stands for None, both are false in the tests made on it
MappingGet(mapping, key) == IF key \in DOMAIN mapping THEN mapping[key] ELSE ""

\* ReminderSystem.__init__: status_mapping with its five defaults
ReminderSystemStatusMapping(section) ==
    LET m0 == UpperKeys(section.status_mapping)
        m1 == SetDefault(m0, "DONE", SectionGet(section, "completed_status", "complete"))
        m2 == SetDefault(m1, "NOT_DONE", SectionGet(section, "pending_status", "to do"))
        m3 == SetDefault(m2, "IN_PROGRESS", SectionGet(section, "in_progress_status", "in progress"))
        m4 == SetDefault(m3, "UNCLEAR", SectionGet(section, "unclear_status", "to do"))
    IN SetDefault(m4, "CALL_BACK", SectionGet(section, "callback_status", "to do"))

\* TelegramReminderService._build_status_mapping: defaults for DONE,
\* NOT_DONE, IN_PROGRESS and for the keys ASSIGNED, REWORK, CANCELLED
BuildStatusMapping(section) ==
    LET m0 == UpperKeys(section.status_mapping)
        m1 == SetDefault(m0, "DONE", SectionGet(section, "completed_status", "complete"))
        m2 == SetDefault(m1, "NOT_DONE", SectionGet(section, "pending_status", "to do"))
        m3 == SetDefault(m2, "IN_PROGRESS", SectionGet(section, "in_progress_status", "in progress"))
        m4 == SetDefault(m3, "ASSIGNED", SectionGet(section, "pending_status", "assigned"))
        m5 == SetDefault(m4, "REWORK", SectionGet(section, "callback_status", "rework"))
    IN SetDefault(m5, "CANCELLED", SectionGet(section, "cancelled_status", "cancelled"))

\* TelegramReminderService.__init__: the table above, completed with
\* the normalised key for every button whose key it does not hold
ServiceStatusMapping(section) ==
    LET built == BuildStatusMapping(section)
        keys == {status_action_map[c].key : c \in DOMAIN status_action_map}
    IN [k \in DOMAIN built \cup keys |->
           IF k \in DOMAIN built THEN built[k] ELSE NormalizeKey(k)]

\* TelegramReminderService.update_clickup_status: status_mapping.get(key)
TelegramStatusMapping(status_key) ==
    MappingGet(ServiceStatusMapping(EmptySection), status_key)

\* process_transcriptions_update.py: the table of the transcription
\* processor (three defaults) and the lookup of update_task_status, which
\* falls back to the entry of UNCLEAR
TranscriptionStatusMapping(section) ==
    LET m0 == UpperKeys(section.status_mapping)
        m1 == SetDefault(m0, "DONE", SectionGet(section, "completed_status", "complete"))
        m2 == SetDefault(m1, "NOT_DONE", SectionGet(section, "pending_status", "to do"))
    IN SetDefault(m2, "UNCLEAR", SectionGet(section, "unclear_status", "to do"))
TranscriptionStatusLookup(section, ai_status) ==
    LET m == TranscriptionStatusMapping(section)
    IN IF ai_status \in DOMAIN m THEN m[ai_status] ELSE MappingGet(m, "UNCLEAR")

\* scripts/push_transcription_to_clickup.py: the statuses of the task's
\* list as _get_list_statuses returns them (none when the request fails)
ListStatus(status, type) == [status |-> status, type |-> type]
ListStatuses ==
    {<<>>,
     <<ListStatus("to do", "open"), ListStatus("in progress", "custom"),
       ListStatus("complete", "closed")>>,
     <<ListStatus("complete", "custom")>>}

\* _choose_status_name: the configured entry, else a status of the list
\* by type; no status of the list carries the key status_type
ChooseStatusName(label, statuses, mapping) ==
    LET desired_type == IF label = "DONE" THEN "done"
                        ELSE IF label = "IN_PROGRESS" THEN "in_progress" ELSE "open"
        named(t) == SelectSeq(statuses, LAMBDA st : st.type = t /\ st.status # "")
        called(n) == SelectSeq(statuses, LAMBDA st : st.status = n)
    IN IF label \in DOMAIN mapping THEN mapping[label]
       ELSE IF named(desired_type) # <<>> THEN Head(named(desired_type)).status
       ELSE IF label = "DONE" THEN
           IF named("closed") # <<>> THEN Head(named("closed")).status
           ELSE IF called("complete") # <<>> THEN "complete"
           ELSE IF called("done") # <<>> THEN "done"
           ELSE "complete"
       ELSE IF statuses # <<>> THEN Head(statuses).status ELSE ""

\* update_status: the status name sent to the tracker, "" when the script
\* gives up with "No valid target status resolved"
ScriptStatus(section, statuses, label) ==
    LET chosen == ChooseStatusName(Upper(label), statuses, UpperKeys(section.status_mapping))
    IN IF chosen # "" THEN chosen ELSE IF Upper(label) = "DONE" THEN "complete" ELSE ""

\* The tracker status a component sends for a label; "" when it has none
\* (update_task_in_clickup closes a DONE task as "complete" without an entry)
ComponentStatus(component, section, statuses, label) ==
    CASE component = "ReminderSystem" ->
            LET target_status == MappingGet(ReminderSystemStatusMapping(section), label)
            IN IF target_status # "" THEN target_status
               ELSE IF label = "DONE" THEN "complete" ELSE ""
      [] component = "TelegramReminderService" ->
            MappingGet(ServiceStatusMapping(section), label)
      [] component = "TranscriptionProcessor" ->
            TranscriptionStatusLookup(section, label)
      [] OTHER -> ScriptStatus(section, statuses, label)
Components ==
    {"ReminderSystem", "TelegramReminderService", "TranscriptionProcessor",
     "push_transcription_to_clickup"}


\* The callback queries the chat platform delivers. A callback id stands
\* for one physical button press, so its payload never changes.
CallbackEvent(id) ==
    CASE id = "cb1" -> [id |-> id, data |-> <<"s", "t1", "d">>, chat |-> "chat1", message_id |-> 1]
      [] id = "cb2" -> [id |-> id, data |-> <<"s", "t2", "h">>, chat |-> "chat1", message_id |-> 2]
      [] OTHER      -> [id |-> id, data |-> <<"s", "t2", "x">>, chat |-> "chat1", message_id |-> 3]

\* ------------------------------------------------------ decision log file
LogEntry(callback, status_key, result) ==
    [callback_id |-> callback.id, task_id |-> callback.data[2],
     status_key |-> status_key, result |-> result]

FileSize(file) == IF file = <<>> THEN 0 ELSE Len(file) * LineSize(file[1])

\* deque(fh, maxlen=n): the last n lines
LastLines(file, n) ==
    IF Len(file) <= n THEN file ELSE SubSeq(file, Len(file) - n + 1, Len(file))

PruneCallbackLogIfNeeded(file, cfg) ==
    IF file = <<>> THEN file
    ELSE IF cfg.callback_log_max_bytes <= 0 THEN <<>>
    ELSE IF FileSize(file) <= cfg.callback_log_max_bytes THEN file
    ELSE IF cfg.callback_log_max_entries <= 0 THEN <<>>
    ELSE LastLines(file, cfg.callback_log_max_entries)

SuccessIds(file) ==
    {file[i].callback_id : i \in {j \in DOMAIN file : file[j].result = "success"}}

\* a restart that does not read the log
LoadNoCallbackIds(file, cfg) == {}

LoadProcessedCallbackIds(file, cfg) ==
    IF ~cfg.log_path_set THEN {} ELSE SuccessIds(file)

\* an append that does not remember the id of a success entry
AppendWithoutRemembering(file, ids, entry, cfg) ==
    IF ~cfg.log_path_set THEN <<file, ids>>
    ELSE <<Append(PruneCallbackLogIfNeeded(file, cfg), entry), ids>>

\* an append that remembers the id of every entry, error entries included
AppendRememberingEvery(file, ids, entry, cfg) ==
    IF ~cfg.log_path_set THEN <<file, ids>>
    ELSE <<Append(PruneCallbackLogIfNeeded(file, cfg), entry), ids \cup {entry.callback_id}>>

\* the pair <<file, processed ids>> after _append_callback_log(entry)
AppendCallbackLog(file, ids, entry, cfg) ==
    IF ~cfg.log_path_set THEN <<file, ids>>
    ELSE <<Append(PruneCallbackLogIfNeeded(file, cfg), entry),
           IF entry.result = "success" THEN ids \cup {entry.callback_id} ELSE ids>>

IsCallbackProcessed(ids, callback_id) == callback_id \in ids

\* ----------------------------------------------------------- chat helpers
ResolveTargetChat(default, cache) ==
    IF default # NoChat THEN default ELSE cache

ResolveSummaryChat(cfg, default, cache) ==
    IF cfg.group_chat_id # NoChat THEN cfg.group_chat_id
    ELSE ResolveTargetChat(default, cache)

\* _register_user_action / _register_failed_action keep the last 50 entries
RegisterAction(list, entry) ==
    LET grown == Append(list, entry)
    IN IF Len(grown) > 50 THEN SubSeq(grown, Len(grown) - 49, Len(grown)) ELSE grown

\* no delivery statistics yet (None)
NoStats == [total_tasks |-> -1]
\* the DeliveryStats object _update_delivery_stats builds from the counts
\* and copies of the two action lists
DeliveryStats(counts, user_actions, failed_actions) ==
    [user_actions |-> user_actions, failed_actions |-> failed_actions] @@ counts
\* the second half of _register_user_action and _register_failed_action:
\* the entry goes to the statistics too when there are any
RegisterInStats(stats, field, entry) ==
    IF stats = NoStats THEN stats
    ELSE [stats EXCEPT ![field] = Append(@, entry)]
\* nothing registered since the last summary
NothingUnreported == [user_actions |-> <<>>, failed_actions |-> <<>>]

\* ------------------------------------------------------ completion ledger
\* The ledger file completed_tasks.json: a mapping task id -> record.
LedgerRecord(task_name, at) == [name |-> task_name, completed_at |-> at]

\* a ledger write that is lost
MarkNothing(ledger, task_id, task_name, at) == ledger

\* ReminderSystem._load_completed_tasks: the content of the file, or {}
\* when the file is missing or reading it raises (the error is logged)
LoadCompletedTasks(ledger, readOk) == IF readOk THEN ledger ELSE <<>>

\* ReminderSystem._mark_task_completed on what the load returned: set the
\* key, save
MarkTaskCompleted(ledger, task_id, task_name, at) ==
    [t \in DOMAIN ledger \cup {task_id} |->
        IF t = task_id THEN LedgerRecord(task_name, at) ELSE ledger[t]]

\* ReminderSystem._is_task_completed
IsTaskCompleted(ledger, task_id) == task_id \in DOMAIN ledger

\* The processes that run _mark_task_completed at the same time, each for
\* its own task, and where each of them is: "idle" before the load,
\* "loaded" holding the dict it read, "finished" after the save.
Procs == {"p1", "p2"}
WriterTask == [p \in Procs |-> IF p = "p1" THEN "t1" ELSE "t2"]
WriterState(pc, loaded) == [pc |-> pc, completed_tasks |-> loaded]

\* The in-memory state of a TelegramReminderService instance (__init__)
InstanceState(name, ids, chat, user_actions, failed_actions, stats) ==
    [name |-> name, processed_callback_ids |-> ids, default_chat_id |-> chat,
     recent_user_actions |-> user_actions, recent_failed_actions |-> failed_actions,
     last_delivery_stats |-> stats]

\* ------------------------------------------------------------ classifiers
\* What the oracle (chat completion) does with one request: it answers
\* with a text, answers with no content, or the request fails.
OracleTexts ==
    {"DONE", "NOT_DONE", "IN_PROGRESS", "CALL_BACK", "UNCLEAR",
     "done", " DONE ", "Done.", "MAYBE", ""}
\* the request fails
NoAnswer == [kind |-> "exception", content |-> ""]
OracleReplies ==
    [kind : {"text"}, content : OracleTexts]
        \cup {[kind |-> "none", content |-> ""], NoAnswer}

\* ReminderSystem.analyze_response_with_ai: content.strip().upper(); an
\* exception (a failed request, content None) gives UNCLEAR
AnalyzeResponseWithAi(reply) ==
    IF reply.kind = "text" THEN Upper(Strip(reply.content)) ELSE "UNCLEAR"

\* scripts/push_transcription_to_clickup.py analyze_status_with_openai:
\* without a key a keyword heuristic on the transcript, else the oracle
AnalyzeStatusWithOpenai(has_key, transcript_has_marker, reply) ==
    IF ~has_key THEN (IF transcript_has_marker THEN "DONE" ELSE "UNCLEAR")
    ELSE IF reply.kind = "exception" THEN "UNCLEAR"
    ELSE IF reply.kind = "none" THEN Upper(Strip("UNCLEAR"))
    ELSE Upper(Strip(IF reply.content = "" THEN "UNCLEAR" ELSE reply.content))

\* A JSON value as far as analyze_batch_response looks at it: an object
\* with its entries, an array or a string with the task ids it contains
\* (list membership, substring test), or a scalar.
JsonValue(kind, entries, members) ==
    [kind |-> kind, entries |-> entries, members |-> members]
JsonNull == JsonValue("null", <<>>, {})
JsonObject(entries) == JsonValue("object", entries, DOMAIN entries)
JsonObjects(values) ==
    {JsonObject(f) : f \in UNION {[ids -> values] : ids \in SUBSET Tasks}}
JsonValues ==
    JsonObjects({"DONE", "NOT_DONE", "MAYBE"})
        \cup {JsonValue(k, <<>>, ids) : k \in {"array", "string"}, ids \in SUBSET Tasks}
        \cup {JsonNull, JsonValue("number", <<>>, {})}

\* The oracle's text as the pieces the parser distinguishes: a code fence,
\* the word json, a JSON document, other prose.
Token(tok, value) == [tok |-> tok, value |-> value]
Fence == Token("fence", JsonNull)
JsonWord == Token("json", JsonNull)
Prose == Token("prose", JsonNull)
Document(value) == Token("value", value)
BatchTexts(values) ==
    UNION {{<<Document(v)>>, <<Fence, JsonWord, Document(v), Fence>>,
            <<Fence, Document(v), Fence>>, <<Fence, JsonWord, Document(v)>>,
            <<Prose, Fence, JsonWord, Document(v), Fence>>,
            <<Fence, JsonWord, Document(v), Fence, Prose>>} : v \in values}
        \cup {<<>>, <<Prose>>, <<Fence, Fence>>}
\* the request for a batch fails
NoReply == [kind |-> "exception", content |-> <<>>]
BatchReplies(values) ==
    [kind : {"text"}, content : BatchTexts(values)]
        \cup {[kind |-> "none", content |-> <<>>], NoReply}

\* result_text.split("```")[1] with a leading "json" removed, when the
\* text starts with a fence
RECURSIVE UpToFence(_)
UpToFence(tokens) ==
    IF tokens = <<>> \/ Head(tokens).tok = "fence" THEN <<>>
    ELSE <<Head(tokens)>> \o UpToFence(Tail(tokens))
StripFence(tokens) ==
    IF tokens # <<>> /\ Head(tokens).tok = "fence" THEN
        LET inner == UpToFence(Tail(tokens))
        IN IF inner # <<>> /\ Head(inner).tok = "json" THEN Tail(inner) ELSE inner
    ELSE tokens

\* json.loads: exactly one JSON document, anything else raises
JsonLoads(tokens) ==
    IF Len(tokens) = 1 /\ tokens[1].tok = "value"
    THEN [ok |-> TRUE, value |-> tokens[1].value]
    ELSE [ok |-> FALSE, value |-> JsonNull]

AllUnclear(task_ids) == JsonObject([t \in task_ids |-> "UNCLEAR"])

\* ReminderSystem.analyze_batch_response for the batch task_ids. The loop
\* "if id not in result: result[id] = ..." raises on a scalar, and on an
\* array or string as soon as one id is missing; every exception ends in
\* the all-UNCLEAR dict.
AnalyzeBatchResponse(reply, task_ids) ==
    IF reply.kind # "text" THEN AllUnclear(task_ids)
    ELSE LET parsed == JsonLoads(StripFence(reply.content))
             result == parsed.value
         IN IF ~parsed.ok THEN AllUnclear(task_ids)
            ELSE IF result.kind = "object" THEN
                JsonObject([t \in DOMAIN result.entries \cup task_ids |->
                               IF t \in DOMAIN result.entries
                               THEN result.entries[t] ELSE "UNCLEAR"])
            ELSE IF result.kind \in {"array", "string"} THEN
                IF task_ids \subseteq result.members THEN result
                ELSE AllUnclear(task_ids)
            ELSE IF task_ids = {} THEN result ELSE AllUnclear(task_ids)

\* The record kept of the last direct call of a function: its name, the
\* task ids and the input it was given, the label or the value it returned.
Probe(fn, ids, input, label, result) ==
    [fn |-> fn, ids |-> ids, input |-> input, label |-> label, result |-> result]
NoProbe == Probe("none", {}, "", "", JsonNull)

\* --------------------------------------------------------- working hours
\* working_hours defaults used by update_task_in_clickup
StartHour == 10
EndHour == 18
WorkingDays == {0, 1, 2, 3, 4}
\* reminder_settings.interval_hours when not configured
ReminderIntervalHours == 2
\* reminder_intervals[priority] when not configured
PriorityIntervalHours == 3

HourOf(at) == (at % MinutesPerDay) \div 60
WeekdayOf(at) == (at \div MinutesPerDay) % 7
DayStart(at) == (at \div MinutesPerDay) * MinutesPerDay

\* a gate that lets every instant through
AlwaysWorkingHours(at) == TRUE

\* ReminderSystem._is_working_hours
IsWorkingHours(at) ==
    /\ WeekdayOf(at) \in WorkingDays
    /\ DayStart(at) + StartHour * 60 <= at
    /\ at < DayStart(at) + EndHour * 60

\* The configuration as far as the reschedule reads it: whether the key
\* reminder_settings exists, its interval_hours (<<>> when absent), and
\* the table reminder_intervals by priority name.
ReminderConfig(has_reminder_settings, interval_hours, reminder_intervals) ==
    [has_reminder_settings |-> has_reminder_settings,
     interval_hours |-> interval_hours,
     reminder_intervals |-> reminder_intervals]
\* reminder_settings: {} and nothing else
DefaultReminderConfig == ReminderConfig(TRUE, <<>>, <<>>)
ReminderConfigs ==
    {DefaultReminderConfig,
     ReminderConfig(TRUE, <<4>>, <<>>),
     \* the dict _load_config builds: neither key
     ReminderConfig(FALSE, <<>>, <<>>),
     \* a legacy config.json with intervals by priority
     ReminderConfig(FALSE, <<>>, [p \in {"normal", "high"} |-> IF p = "high" THEN 1 ELSE 3])}
\* task_data["priority"]["priority"]; Absent: the task has no priority
Priorities == {Absent, "normal", "high"}

\* update_task_in_clickup, interval_hours before the label is looked at
IntervalHours(cfg, priority_obj) ==
    LET priority == IF priority_obj = Absent THEN "normal" ELSE priority_obj
    IN IF cfg.has_reminder_settings
       THEN IF cfg.interval_hours = <<>> THEN ReminderIntervalHours
            ELSE cfg.interval_hours[1]
       ELSE IF priority \in DOMAIN cfg.reminder_intervals
            THEN cfg.reminder_intervals[priority] ELSE PriorityIntervalHours

\* update_task_in_clickup, the interval in minutes: 1 hour for IN_PROGRESS,
\* 0.5 hour for CALL_BACK
IntervalMinutesFor(label, cfg, priority_obj) ==
    CASE label = "IN_PROGRESS" -> 60
      [] label = "CALL_BACK"   -> 30
      [] OTHER                 -> IntervalHours(cfg, priority_obj) * 60

IntervalMinutes(label) == IntervalMinutesFor(label, DefaultReminderConfig, Absent)

RECURSIVE SkipToWorkingDay(_)
SkipToWorkingDay(at) ==
    IF WeekdayOf(at) \in WorkingDays THEN at ELSE SkipToWorkingDay(at + MinutesPerDay)

\* next_reminder = now + timedelta(hours=interval_hours)
AdvancedReminder(at, label, cfg, priority_obj) ==
    at + IntervalMinutesFor(label, cfg, priority_obj)

\* the rollover: taken only when the hour of next_reminder is at or after
\* the end hour, and the non-working days are skipped only inside it
RollOver(next_reminder) ==
    IF HourOf(next_reminder) >= EndHour
    THEN SkipToWorkingDay(DayStart(next_reminder) + StartHour * 60 + MinutesPerDay)
    ELSE next_reminder

\* update_task_in_clickup, the due date of a task that is not done
NextReminderFor(at, label, cfg, priority_obj) ==
    RollOver(AdvancedReminder(at, label, cfg, priority_obj))

NextReminder(at, label) == NextReminderFor(at, label, DefaultReminderConfig, Absent)

\* ------------------------------------------------------- tracker writes
\* What one workflow step did to the tracker: raised tells whether it left
\* by an exception, attempted and wrote count the write requests sent and
\* the ones the tracker applied.
Outcome(raised, status, due, cmts, attempted, wrote) ==
    [raised |-> raised, status |-> status, due |-> due, comments |-> cmts,
     attempted |-> attempted, wrote |-> wrote]

Comment(source, detail) == [source |-> source, detail |-> detail]

\* ClickUpEngine.update_task_status: trackerRes is what the client's
\* update_task_status does ("ok" = True, "rejected" = False, "raise"),
\* commentRes what add_comment does ("ok", "raise"). The result is a bool.
EngineUpdateTaskStatus(task_id, status, trackerRes, commentRes) ==
    IF trackerRes = "ok" THEN
        [ret |-> (commentRes = "ok"),
         status |-> [trackerStatus EXCEPT ![task_id] = status],
         comments |-> IF commentRes = "ok"
                      THEN [comments EXCEPT ![task_id] = Append(@, Comment("engine", status))]
                      ELSE comments,
         wrote |-> 1]
    ELSE
        [ret |-> FALSE, status |-> trackerStatus, comments |-> comments, wrote |-> 0]

\* TelegramReminderService.update_clickup_status: returns None on every
\* path, a failed update is only written to the process log
UpdateClickupStatus(task_id, status_key, trackerRes, commentRes) ==
    LET status == TelegramStatusMapping(status_key)
        e == EngineUpdateTaskStatus(task_id, status, trackerRes, commentRes)
    IN IF status = ""
       THEN Outcome(FALSE, trackerStatus, trackerDue, comments, 0, 0)
       ELSE Outcome(FALSE, e.status, trackerDue, e.comments, 1, e.wrote)

\* TelegramReminderService._postpone_task_due_date: fetchOk tells whether
\* fetch_task_details reached the tracker; update_task raises on failure
PostponeTaskDueDate(task_id, postpone_hours, trackerRes, commentRes, fetchOk) ==
    LET due_raw == IF fetchOk THEN trackerDue[task_id] ELSE NoDue
        base_due == IF due_raw # NoDue THEN due_raw ELSE now
        new_due == base_due + postpone_hours * 60
    IN IF postpone_hours <= 0
       THEN Outcome(TRUE, trackerStatus, trackerDue, comments, 0, 0)
       ELSE IF trackerRes # "ok"
       THEN Outcome(TRUE, trackerStatus, trackerDue, comments, 1, 0)
       ELSE Outcome(FALSE, trackerStatus,
                    [trackerDue EXCEPT ![task_id] = new_due],
                    IF commentRes = "ok"
                    THEN [comments EXCEPT ![task_id] = Append(@, Comment("postpone", "due"))]
                    ELSE comments,
                    1, 1)

Sent(out, chat) == [out EXCEPT !.messages[chat] = @ + 1]
Answered(out) == [out EXCEPT !.answers = @ + 1]

\* ------------------------------------------------------------- operations
\* TelegramReminderService.handle_callback
HandleCallback(cbid, trackerRes, commentRes, fetchOk) ==
    LET callback == CallbackEvent(cbid)
        data == callback.data
        raw_chat == callback.chat
        wellFormed == Len(data) = 3 /\ data[1] = "s"
    IN
    /\ deliveries < MaxDeliveries
    /\ deliveries' = deliveries + 1
    /\ UNCHANGED <<now, config, processVars, restartSeen, cycleVars>>
    /\ IF IsCallbackProcessed(processed_callback_ids, callback.id) THEN
           /\ last' = LastOp("handle_callback", cbid, "duplicate", {}, {}, <<>>)
           /\ UNCHANGED <<trackerVars, serviceVars, applied, everSuccess, unreported>>
       ELSE IF ~wellFormed \/ data[3] \notin DOMAIN status_action_map THEN
           /\ chat_out' = Answered(chat_out)
           /\ last' = LastOp("handle_callback", cbid, "unsupported", {}, {}, <<>>)
           /\ UNCHANGED <<trackerVars, callback_log, processed_callback_ids,
                          default_chat_id, chat_id_cache, recent_user_actions,
                          recent_failed_actions, last_delivery_stats, applied,
                          everSuccess, unreported>>
       ELSE
           LET task_id == data[2]
               action == status_action_map[data[3]]
               status_key == action.key
               is_postpone == action.operation = "postpone" /\ action.postpone_hours > 0
               learn == raw_chat # NoChat /\ config.configured_default_chat = NoChat
               default1 == IF learn THEN raw_chat ELSE default_chat_id
               cache1 == IF learn THEN raw_chat ELSE chat_id_cache
               r == IF is_postpone
                    THEN PostponeTaskDueDate(task_id, action.postpone_hours,
                                             trackerRes, commentRes, fetchOk)
                    ELSE UpdateClickupStatus(task_id, status_key, trackerRes, commentRes)
               result == IF r.raised THEN "error" ELSE "success"
               appended == AppendCallbackLog(callback_log, processed_callback_ids,
                                             LogEntry(callback, status_key, result), config)
               \* success path: chat_id falls back to _resolve_target_chat()
               target == IF raw_chat # NoChat THEN raw_chat
                         ELSE ResolveTargetChat(default1, cache1)
               summary == ResolveSummaryChat(config, default1, cache1)
               out1 == IF raw_chat # NoChat /\ target # NoChat /\ callback.message_id # 0
                       THEN [chat_out EXCEPT !.keyboard_edits = @ + 1] ELSE chat_out
           IN
           /\ trackerStatus' = r.status
           /\ trackerDue' = r.due
           /\ comments' = r.comments
           /\ callback_log' = appended[1]
           /\ processed_callback_ids' = appended[2]
           /\ chat_id_cache' = cache1
           /\ applied' = [applied EXCEPT ![cbid] = @ + r.wrote]
           /\ last' = LastOp("handle_callback", cbid, result, {}, {}, <<>>)
           /\ IF r.raised THEN
                  /\ recent_failed_actions' = RegisterAction(recent_failed_actions, task_id)
                  /\ last_delivery_stats' =
                        RegisterInStats(last_delivery_stats, "failed_actions", task_id)
                  /\ unreported' = [unreported EXCEPT !.failed_actions = Append(@, task_id)]
                  /\ chat_out' =
                        LET a == Answered(chat_out)
                            b == IF raw_chat # NoChat THEN Sent(a, raw_chat) ELSE a
                        IN IF summary # NoChat THEN Sent(b, summary) ELSE b
                  /\ default_chat_id' =
                        IF config.group_chat_id = NoChat /\ default1 = NoChat THEN cache1
                        ELSE default1
                  /\ UNCHANGED <<recent_user_actions, everSuccess>>
              ELSE
                  /\ everSuccess' = IF config.log_path_set THEN everSuccess \cup {cbid}
                                    ELSE everSuccess
                  /\ default_chat_id' =
                        IF raw_chat = NoChat /\ default1 = NoChat THEN cache1 ELSE default1
                  /\ IF target = NoChat THEN
                         /\ chat_out' = out1
                         /\ UNCHANGED <<recent_user_actions, recent_failed_actions,
                                        last_delivery_stats, unreported>>
                     ELSE
                         /\ chat_out' = Sent(Answered(out1), target)
                         /\ recent_user_actions' = RegisterAction(recent_user_actions, task_id)
                         /\ last_delivery_stats' =
                               RegisterInStats(last_delivery_stats, "user_actions", task_id)
                         /\ unreported' = [unreported EXCEPT !.user_actions = Append(@, task_id)]
                         /\ UNCHANGED recent_failed_actions

\* --------------------------------------------------------- due-task fetch
\* a status of the closed type: the tracker leaves such tasks out of a
\* list query with include_closed=false
IsClosed(status) == status = "complete"

IsDue(task_id) ==
    /\ ~IsClosed(trackerStatus[task_id])
    /\ trackerDue[task_id] # NoDue
    /\ trackerDue[task_id] <= now

\* a fetch that returns the due tasks whatever the requests did
GetTasksIgnoringFailure(ledger, fetchOk) ==
    SelectSeq(TaskOrder, LAMBDA t : IsDue(t) /\ ~IsTaskCompleted(ledger, t))

\* ReminderSystem.get_tasks_for_reminder: [] when a request fails
GetTasksForReminder(ledger, fetchOk) ==
    IF ~fetchOk THEN <<>>
    ELSE SelectSeq(TaskOrder, LAMBDA t : IsDue(t) /\ ~IsTaskCompleted(ledger, t))

\* ClickUpEngine.fetch_pending_reminders: fetchRes is "ok", "no_list" (the
\* list is not found) or "raise" (the client raises)
FetchPendingReminders(fetchRes) ==
    IF fetchRes # "ok" THEN <<>> ELSE SelectSeq(TaskOrder, IsDue)

\* TelegramReminderService.fetch_pending_tasks: [] when the engine raises
FetchPendingTasks(fetchRes) == FetchPendingReminders(fetchRes)

Range(seq) == {seq[i] : i \in DOMAIN seq}

\* ------------------------------------------------------------ voice cycle
\* self.status_mapping.get(status) with nothing configured
ReminderStatusMapping(label) ==
    MappingGet(ReminderSystemStatusMapping(EmptySection), label)

\* the stores a voice cycle works on, and what it has done so far
CycleState(ledger, status, due, cmts, updates, raised) ==
    [ledger |-> ledger, status |-> status, due |-> due, comments |-> cmts,
     updates |-> updates, raised |-> raised]

\* ReminderSystem.update_task_in_clickup: putRes is what the PUT does
\* ("ok" = 200, "rejected" = another status code, "raise")
UpdateTaskInClickup(st, task_id, task_name, label, putRes) ==
    IF IsTaskCompleted(st.ledger, task_id) THEN st
    ELSE
        LET target_status == ReminderStatusMapping(label)
            new_status == IF target_status # "" THEN target_status
                          ELSE IF label = "DONE" THEN "complete" ELSE ""
            reschedule == label \in {"NOT_DONE", "IN_PROGRESS", "UNCLEAR", "CALL_BACK"}
            new_due == IF reschedule THEN NextReminder(now, label) ELSE NoDue
            request == [task |-> task_id, label |-> label, status |-> new_status,
                        due |-> new_due, result |-> putRes]
        IN CycleState(
            IF label = "DONE"
            THEN MarkTaskCompleted(st.ledger, task_id, task_name, now) ELSE st.ledger,
            IF putRes = "ok" /\ new_status # ""
            THEN [st.status EXCEPT ![task_id] = new_status] ELSE st.status,
            IF putRes = "ok" /\ reschedule
            THEN [st.due EXCEPT ![task_id] = new_due] ELSE st.due,
            st.comments,
            Append(st.updates, request),
            putRes = "raise")

\* ReminderSystem._post_call_result_comment: a failure is only logged
PostCallResultComment(st, task_id, detail, commentOk) ==
    IF commentOk
    THEN [st EXCEPT !.comments[task_id] = Append(@, Comment("call", detail))]
    ELSE st

\* the loops of process_batch_tasks: update, then comment, task by task;
\* an exception of the update leaves the loop
RECURSIVE UpdateBatch(_, _, _, _, _, _)
UpdateBatch(st, tasks, labelOf, detail, putRes, commentOk) ==
    IF tasks = <<>> \/ st.raised THEN st
    ELSE LET t == Head(tasks)
             u == UpdateTaskInClickup(st, t, TaskName(t), labelOf[t], putRes[t])
         IN IF u.raised THEN u
            ELSE UpdateBatch(PostCallResultComment(u, t, detail, commentOk),
                             Tail(tasks), labelOf, detail, putRes, commentOk)

CallOutcomes ==
    {"call_error", "no_recording", "no_response", "transcription_error", "transcribed"}

\* ReminderSystem.process_batch_tasks for one recipient's tasks
ProcessBatchTasks(st, tasks, callOutcome, reply, putRes, commentOk) ==
    LET ids == Range(tasks)
        all(label) == [t \in ids |-> label]
        task_statuses == AnalyzeBatchResponse(reply, ids)
    IN CASE callOutcome = "call_error" ->
                UpdateBatch(st, tasks, all("NOT_DONE"), "error", putRes, commentOk)
         \* a failed transcription returns (None, "ERROR"): the test "not
         \* transcription" sends it down the no-response branch, and the
         \* branch for trans_status == "ERROR" after it is never entered
         [] callOutcome \in {"no_recording", "no_response", "transcription_error"} ->
                UpdateBatch(st, tasks, all("NOT_DONE"), "no_recording", putRes, commentOk)
         [] OTHER ->
                \* task_statuses.get(...) raises on anything but a dict
                IF task_statuses.kind # "object" THEN [st EXCEPT !.raised = TRUE]
                ELSE UpdateBatch(st, tasks, task_statuses.entries,
                                 "recording_found", putRes, commentOk)

\* what a call of run leaves in last: the record of the operation, the
\* force flag it was called with, how the due-task fetch ended ("none" when
\* the gate refused the run), what placing the batch call came to
\* ("none" when no call was placed) and whether the settle wait and the
\* recording poll were entered
RunOp(force, fetch, call, polled, outcome, fetched, covered, updates) ==
    [force |-> force, fetch |-> fetch, call |-> call, polled |-> polled]
        @@ LastOp("run", "", outcome, fetched, covered, updates)

\* ReminderSystem.run. The contacts table is configured, so every task
\* goes to its first contact and the cycle has one batch.
Run(force, fetchOk, callOutcome, reply, putRes, commentOk) ==
    LET tasks == GetTasksForReminder(completed_tasks, fetchOk)
        st0 == CycleState(completed_tasks, trackerStatus, trackerDue, comments, <<>>, FALSE)
        st == ProcessBatchTasks(st0, tasks, callOutcome, reply, putRes, commentOk)
    IN
    /\ cycles' = cycles + 1
    /\ UNCHANGED <<now, config, processVars, feed, poller, serviceVars, historyVars, probe>>
    /\ IF ~force /\ ~IsWorkingHours(now) THEN
           /\ last' = RunOp(force, "none", "none", FALSE, "not_working_hours", {}, {}, <<>>)
           /\ UNCHANGED <<trackerVars, completed_tasks>>
       ELSE IF tasks = <<>> THEN
           /\ last' = RunOp(force, IF fetchOk THEN "ok" ELSE "failed", "none", FALSE, "no_tasks", {}, {}, <<>>)
           /\ UNCHANGED <<trackerVars, completed_tasks>>
       ELSE
           /\ completed_tasks' = st.ledger
           /\ trackerStatus' = st.status
           /\ trackerDue' = st.due
           /\ comments' = st.comments
           /\ last' = RunOp(force, IF fetchOk THEN "ok" ELSE "failed", callOutcome,
                          callOutcome # "call_error",
                          IF st.raised THEN "error" ELSE callOutcome,
                          Range(tasks),
                             IF callOutcome = "call_error" THEN {} ELSE Range(tasks),
                             st.updates)

\* TelegramReminderService.send_voice_reminders with the defaults
\* (assignees=None, dry_run=False): every task is mapped to a phone of the
\* phone table; callOk is the result of the telephony call. No delivery
\* statistics exist outside send_reminders, so register_voice_results
\* records nothing.
SendVoiceReminders(fetchRes, callOk) ==
    LET tasks == FetchPendingTasks(fetchRes)
    IN
    /\ cycles' = cycles + 1
    /\ last' = [fetch |-> IF fetchRes = "raise" THEN "failed" ELSE "ok"]
                  @@ LastOp("send_voice_reminders", "",
                            IF tasks = <<>> THEN "no_tasks"
                            ELSE IF callOk THEN "called" ELSE "call_failed",
                            Range(tasks), Range(tasks), <<>>)
    /\ UNCHANGED <<now, config, processVars, feed, poller, trackerVars, serviceVars, historyVars,
                   completed_tasks, probe>>

\* the content of the SMS code file (var/sms_codes.json): code -> task id
SmsCodes == [code \in {"1"} |-> "t1"]

\* system._get_task_by_sms_code(task_number) as process_sms_message calls
\* it: ReminderSystem defines no such method, so the attribute lookup
\* raises AttributeError whatever the code file holds
GetTaskBySmsCode(code) == "raise"

\* process_sms_replies.process_sms_message: formOk tells whether the body
\* has the form "number. text" (parse_sms_reply), reply is the oracle's
\* answer for the text, smsOk whether the confirmation SMS goes out. The
\* whole body runs in one try/except that turns any exception into False.
ProcessSmsMessage(formOk, code, reply, putRes, commentOk, smsOk) ==
    LET task_info == GetTaskBySmsCode(code)
        task_id == task_info
        status == AnalyzeResponseWithAi(reply)
        st0 == CycleState(completed_tasks, trackerStatus, trackerDue, comments, <<>>, FALSE)
        u == UpdateTaskInClickup(st0, task_id, TaskName(task_id), status, putRes)
        st == IF u.raised THEN u ELSE PostCallResultComment(u, task_id, "sms_reply", commentOk)
        input == [formOk |-> formOk, code |-> code]
    IN
    /\ cycles' = cycles + 1
    /\ UNCHANGED <<now, config, processVars, feed, poller, serviceVars, historyVars>>
    /\ IF ~formOk \/ task_info = "none" THEN
           /\ last' = LastOp("process_sms_message", "", "ignored", {}, {}, <<>>)
           /\ probe' = Probe("process_sms_message", {}, input, "",
                             [classified |-> 0, confirmations |-> 0])
           /\ UNCHANGED <<trackerVars, completed_tasks>>
       ELSE IF task_info = "raise" THEN
           /\ last' = LastOp("process_sms_message", "", "error", {}, {}, <<>>)
           /\ probe' = Probe("process_sms_message", {}, input, "",
                             [classified |-> 0, confirmations |-> 0])
           /\ UNCHANGED <<trackerVars, completed_tasks>>
       ELSE
           /\ completed_tasks' = st.ledger
           /\ trackerStatus' = st.status
           /\ trackerDue' = st.due
           /\ comments' = st.comments
           /\ last' = LastOp("process_sms_message", "",
                             IF st.raised THEN "error" ELSE "confirmed",
                             {}, {}, st.updates)
           /\ probe' = Probe("process_sms_message", {task_id}, input, status,
                             [classified |-> 1,
                              confirmations |-> IF ~st.raised /\ smsOk THEN 1 ELSE 0])

\* A new TelegramReminderService is constructed over the same files
\* (__init__): the in-memory state is rebuilt from the log and the cache
Restart ==
    /\ processed_callback_ids' = LoadProcessedCallbackIds(callback_log, config)
    /\ default_chat_id' = IF config.configured_default_chat # NoChat
                          THEN config.configured_default_chat ELSE chat_id_cache
    /\ recent_user_actions' = <<>>
    /\ recent_failed_actions' = <<>>
    /\ last_delivery_stats' = NoStats
    /\ unreported' = NothingUnreported
    /\ restartSeen' = restartSeen \cup everSuccess
    /\ last' = LastOp("restart", "", "", {}, {}, <<>>)
    /\ poller' = PollerDown(poller)
    /\ UNCHANGED <<now, config, processVars, feed, trackerVars, callback_log, chat_id_cache, chat_out,
                   deliveries, applied, everSuccess, cycleVars>>

\* time passes
Tick ==
    /\ \E t \in Times : t > now /\ now' = t
    /\ last' = last
    /\ UNCHANGED <<config, processVars, feed, poller, trackerVars, serviceVars, historyVars, cycleVars>>

Init ==
    /\ now = 11 * 60
    /\ config \in Configs
    /\ trackerStatus = [t \in Tasks |-> InitialStatus]
    /\ trackerDue = InitialDue
    /\ comments = [t \in Tasks |-> <<>>]
    /\ callback_log = <<>>
    /\ processed_callback_ids = {}
    /\ default_chat_id = config.configured_default_chat
    /\ chat_id_cache = NoChat
    /\ chat_out = [answers |-> 0, keyboard_edits |-> 0, messages |-> [c \in Chats |-> 0]]
    /\ recent_user_actions = <<>>
    /\ recent_failed_actions = <<>>
    /\ completed_tasks = <<>>
    /\ cycles = 0
    /\ probe = NoProbe
    /\ deliveries = 0
    /\ applied = [c \in CallbackIds |-> 0]
    /\ everSuccess = {}
    /\ restartSeen = {}
    /\ last = LastOp("init", "", "", {}, {}, <<>>)
    /\ feed = <<>>
    /\ last_delivery_stats = NoStats
    /\ unreported = NothingUnreported
    /\ poller = PollerState("down", NoOffset, <<>>, 0, NoOffset, <<>>, {})
    /\ writers = [p \in Procs |-> WriterState("idle", <<>>)]
    /\ peer = InstanceState("B", {}, config.configured_default_chat, <<>>, <<>>, NoStats)

\* one delivery of a callback query; an input the handler never reads is
\* held at one value
Deliver ==
    \E cbid \in CallbackIds, trackerRes \in {"ok", "rejected", "raise"},
       commentRes \in {"ok", "raise"}, fetchOk \in BOOLEAN :
        /\ trackerRes # "ok" => commentRes = "ok"
        /\ CallbackEvent(cbid).data[3] # "h" => fetchOk
        /\ CallbackEvent(cbid).data[3] = "h" => trackerRes # "rejected"
        /\ HandleCallback(cbid, trackerRes, commentRes, fetchOk)
        /\ UNCHANGED <<feed, poller>>

Next == Deliver \/ Restart \/ Tick

\* The chat callback reconciler: deliveries, restarts, time
Spec == Init /\ [][Next]_vars

\* ------------------------------------------- the voice cycle and its peers
\* the oracle answers of a voice cycle: an object naming every task, an
\* object naming only t1 with no label, an array naming every task, or a
\* failed request
CycleReplies ==
    {[kind |-> "text", content |-> <<Document(v)>>] :
        v \in {JsonObject(f) : f \in [Tasks -> {"DONE", "NOT_DONE"}]}
              \cup {JsonObject([t \in {"t1"} |-> "MAYBE"]), JsonValue("array", <<>>, Tasks)}}
        \cup {NoReply}
PutResults == {"ok", "rejected", "raise"}
AllOk == [t \in Tasks |-> "ok"]
\* what the tracker does with the requests of one cycle: at most one
\* request fails, the PUT of one task or the comments
CycleFailures ==
    {<<AllOk, TRUE>>, <<AllOk, FALSE>>}
        \cup {<<[AllOk EXCEPT ![t] = r], TRUE>> : t \in Tasks, r \in {"rejected", "raise"}}

\* one run of the voice cycle; an input the run never reads is held at
\* one value
CycleRun ==
    /\ cycles + deliveries < MaxCycles
    /\ \E force \in (IF IsWorkingHours(now) THEN {FALSE} ELSE BOOLEAN) :
         \/ Run(force, FALSE, "call_error", NoReply, AllOk, TRUE)
         \/ \E callOutcome \in CallOutcomes, failure \in CycleFailures :
              \E reply \in (IF callOutcome = "transcribed" THEN CycleReplies ELSE {NoReply}) :
                 Run(force, TRUE, callOutcome, reply, failure[1], failure[2])

VoiceReminders ==
    /\ cycles + deliveries < MaxCycles
    /\ \/ \E fetchRes \in {"no_list", "raise"} : SendVoiceReminders(fetchRes, TRUE)
       \/ \E callOk \in BOOLEAN : SendVoiceReminders("ok", callOk)

\* the oracle answers to an SMS reply
SmsReplies ==
    {r \in OracleReplies :
        r = NoAnswer \/ r.content \in {"DONE", "IN_PROGRESS", "CALL_BACK", "MAYBE"}}
\* what the tracker does with the requests of one SMS reply
SmsFailures == {<<"ok", TRUE>>, <<"ok", FALSE>>, <<"rejected", TRUE>>, <<"raise", TRUE>>}

SmsReply ==
    /\ cycles + deliveries < MaxCycles
    /\ \/ \E formOk \in BOOLEAN :
            ProcessSmsMessage(formOk, "9", NoAnswer, "ok", TRUE, TRUE)
       \/ \E code \in DOMAIN SmsCodes, reply \in SmsReplies, failure \in SmsFailures,
             smsOk \in BOOLEAN :
            ProcessSmsMessage(TRUE, code, reply, failure[1], failure[2], smsOk)

InitCycle == Init /\ config = DefaultConfig

\* a chat callback delivered between the operations above
CycleDeliver == cycles + deliveries < MaxCycles /\ Deliver

NextCycle == CycleRun \/ VoiceReminders \/ SmsReply \/ CycleDeliver \/ Tick

\* The voice cycle, the voice reminder sender, SMS replies and chat
\* callbacks working on one tracker and one ledger
SpecCycle == InitCycle /\ [][NextCycle]_vars

\* ------------------------------------------------- the ledger operations
\* _mark_task_completed called with the name the tracker reports
MarkCompleted ==
    \E task_id \in Tasks, task_name \in TaskNames, readOk \in BOOLEAN :
        /\ completed_tasks' = MarkTaskCompleted(LoadCompletedTasks(completed_tasks, readOk),
                                                task_id, task_name, now)
        /\ probe' = Probe("mark_task_completed", {task_id}, task_name,
                          IF readOk THEN "" ELSE "read_failed", JsonNull)
        /\ UNCHANGED <<now, config, processVars, feed, poller, trackerVars, serviceVars, historyVars, cycles, last>>

\* _is_task_completed
CheckCompleted ==
    \E task_id \in Tasks, readOk \in BOOLEAN :
        /\ probe' = Probe("is_task_completed", {task_id}, "",
                          IF IsTaskCompleted(LoadCompletedTasks(completed_tasks, readOk), task_id)
                          THEN "True" ELSE "False",
                          JsonNull)
        /\ UNCHANGED <<now, config, processVars, feed, poller, trackerVars, serviceVars, historyVars,
                       completed_tasks, cycles, last>>

NextLedger == MarkCompleted \/ CheckCompleted \/ Tick

\* The ledger called directly, as the tests of the repository do
SpecLedger == InitCycle /\ [][NextLedger]_vars

\* The other service instance runs next. The two instances are separate
\* processes (the bot, and send_telegram_reminders.py started beside it):
\* each has the in-memory state its own __init__ built and its handlers
\* changed, and they share the log file, the chat id file, the tracker
\* and the chat.
SwitchInstance ==
    /\ processed_callback_ids' = peer.processed_callback_ids
    /\ default_chat_id' = peer.default_chat_id
    /\ recent_user_actions' = peer.recent_user_actions
    /\ recent_failed_actions' = peer.recent_failed_actions
    /\ last_delivery_stats' = peer.last_delivery_stats
    /\ peer' = InstanceState(IF peer.name = "B" THEN "A" ELSE "B",
                             processed_callback_ids, default_chat_id,
                             recent_user_actions, recent_failed_actions,
                             last_delivery_stats)
    /\ last' = LastOp("switch_instance", "", peer.name, {}, {}, <<>>)
    /\ UNCHANGED <<now, config, writers, feed, poller, trackerVars, callback_log,
                   chat_id_cache, chat_out, historyVars, cycleVars>>

NextInstances == Deliver \/ SwitchInstance \/ Tick

\* Two service instances over one decision log, both constructed before
\* the first delivery, with the default log settings
SpecInstances == InitCycle /\ [][NextInstances]_vars

\* _mark_task_completed, first statement: the process reads the file
WriterLoad(p) ==
    /\ writers[p].pc = "idle"
    /\ writers' = [writers EXCEPT
                      ![p] = WriterState("loaded", LoadCompletedTasks(completed_tasks, TRUE))]
    /\ last' = LastOp("load_completed_tasks", "", p, {}, {}, <<>>)
    /\ UNCHANGED <<now, config, peer, feed, poller, trackerVars, serviceVars, historyVars,
                   cycleVars>>

\* _mark_task_completed, the rest: the process sets its key in the dict it
\* read and writes the dict over the file
WriterSave(p) ==
    /\ writers[p].pc = "loaded"
    /\ completed_tasks' = MarkTaskCompleted(writers[p].completed_tasks, WriterTask[p],
                                            TaskName(WriterTask[p]), now)
    /\ writers' = [writers EXCEPT ![p] = WriterState("finished", <<>>)]
    /\ last' = LastOp("save_completed_tasks", "", p, {}, {}, <<>>)
    /\ UNCHANGED <<now, config, peer, feed, poller, trackerVars, serviceVars, historyVars,
                   cycles, probe>>

NextWriters ==
    \/ \E p \in Procs : WriterLoad(p)
    \/ \E p \in Procs : WriterSave(p)
    \/ CheckCompleted
    \/ Tick

\* Two processes mark their tasks completed over the same ledger file
SpecWriters == InitCycle /\ [][NextWriters]_vars

\* ---------------------------------------------------- the classifiers
ClassifySingle ==
    \E reply \in OracleReplies :
        /\ probe' = Probe("analyze_response_with_ai", {}, reply,
                          AnalyzeResponseWithAi(reply), JsonNull)
        /\ UNCHANGED <<now, config, processVars, feed, poller, trackerVars, serviceVars, historyVars,
                       completed_tasks, cycles, last>>

ClassifyTranscript ==
    \E has_key \in BOOLEAN, marker \in BOOLEAN, reply \in OracleReplies :
        /\ has_key => ~marker
        /\ ~has_key => reply.kind = "none"
        /\ probe' = Probe("analyze_status_with_openai", {}, <<has_key, marker, reply>>,
                          AnalyzeStatusWithOpenai(has_key, marker, reply), JsonNull)
        /\ UNCHANGED <<now, config, processVars, feed, poller, trackerVars, serviceVars, historyVars,
                       completed_tasks, cycles, last>>

ClassifyBatch ==
    \E reply \in BatchReplies(JsonValues), task_ids \in SUBSET Tasks \ {{}} :
        /\ probe' = Probe("analyze_batch_response", task_ids, reply, "",
                          AnalyzeBatchResponse(reply, task_ids))
        /\ UNCHANGED <<now, config, processVars, feed, poller, trackerVars, serviceVars, historyVars,
                       completed_tasks, cycles, last>>

NextClassify == ClassifySingle \/ ClassifyTranscript \/ ClassifyBatch

\* The classifiers applied to every answer of the oracle
SpecClassify == InitCycle /\ [][NextClassify]_vars

\* ------------------------------------------------- the status tables
\* a component built from one configuration looks up one label
MapStatus ==
    \E section \in ClickupSections, component \in Components, label \in Labels :
        \E statuses \in (IF component = "push_transcription_to_clickup"
                          THEN ListStatuses ELSE {<<>>}) :
            /\ probe' = Probe("status_mapping", {}, <<component, section, statuses, label>>,
                              ComponentStatus(component, section, statuses, label), JsonNull)
            /\ UNCHANGED <<now, config, processVars, feed, poller, trackerVars, serviceVars, historyVars,
                           completed_tasks, cycles, last>>

NextMapping == MapStatus

\* The status tables of the components under every configuration
SpecMapping == InitCycle /\ [][NextMapping]_vars

\* ------------------------------------------------- the reschedule
\* the instants at which a status other than DONE is written: before the
\* start hour (Mon 07:00), inside the window (Mon 11:00, Mon 15:30), near
\* its end (Mon 17:30, Fri 16:30, Fri 17:30), after it (Mon 19:00,
\* Mon 23:00) and on non-working days (Sat 11:00, Sun 23:30)
RescheduleTimes ==
    {7 * 60, 11 * 60, 15 * 60 + 30, 17 * 60 + 30, 19 * 60, 23 * 60,
     4 * MinutesPerDay + 16 * 60 + 30, 4 * MinutesPerDay + 17 * 60 + 30,
     5 * MinutesPerDay + 11 * 60, 6 * MinutesPerDay + 23 * 60 + 30}

\* update_task_in_clickup computes the due date of a task that is not done
Reschedule ==
    \E at \in RescheduleTimes, label \in Labels \ {"DONE"},
       cfg \in ReminderConfigs, priority_obj \in Priorities :
        /\ probe' = Probe("update_task_in_clickup", {}, <<at, label, cfg, priority_obj>>, label,
                          [next_reminder |-> AdvancedReminder(at, label, cfg, priority_obj),
                           due_date |-> NextReminderFor(at, label, cfg, priority_obj)])
        /\ UNCHANGED <<now, config, processVars, feed, poller, trackerVars, serviceVars, historyVars,
                       completed_tasks, cycles, last>>

NextReschedule == Reschedule

\* The due date of every label at every instant under every configuration
SpecReschedule == InitCycle /\ [][NextReschedule]_vars

\* ------------------------------------------------- the engine
\* the tracker statuses the chat buttons write
EngineStatuses == {TelegramStatusMapping(k) : k \in {"DONE", "NOT_DONE", "IN_PROGRESS"}}

\* ClickUpEngine.update_task_status called for a task, with every outcome
\* of the client's two requests; its return value is kept in probe
EngineApply ==
    /\ deliveries < MaxDeliveries
    /\ \E task_id \in Tasks, status \in EngineStatuses,
          trackerRes \in {"ok", "rejected", "raise"}, commentRes \in {"ok", "raise"} :
         LET e == EngineUpdateTaskStatus(task_id, status, trackerRes, commentRes)
         IN /\ trackerRes # "ok" => commentRes = "ok"
            /\ trackerStatus' = e.status
            /\ comments' = e.comments
            /\ probe' = Probe("update_task_status", {task_id}, <<trackerRes, commentRes>>,
                              status, e.ret)
    /\ deliveries' = deliveries + 1
    /\ UNCHANGED <<now, config, processVars, feed, poller, trackerDue, serviceVars, applied, everSuccess, restartSeen,
                   unreported, completed_tasks, cycles, last>>

NextEngine == EngineApply

\* The engine's status update under every outcome of the tracker
SpecEngine == InitCycle /\ [][NextEngine]_vars

\* ------------------------------------------------- phone routing
\* A text is a sequence of characters. str.lower() on the characters used:
LowerChar(c) ==
    CASE c = "A" -> "a" [] c = "B" -> "b" [] c = "E" -> "e" [] c = "L" -> "l"
      [] c = "X" -> "x" [] OTHER -> c
LowerText(text) == [i \in DOMAIN text |-> LowerChar(text[i])]

RECURSIVE StripLeft(_)
StripLeft(text) ==
    IF text # <<>> /\ Head(text) = " " THEN StripLeft(Tail(text)) ELSE text

\* " ".join(text.split()) of a text without leading blanks
RECURSIVE JoinWords(_)
JoinWords(text) ==
    IF text = <<>> THEN <<>>
    ELSE IF Head(text) = " "
         THEN LET rest == StripLeft(text)
              IN IF rest = <<>> THEN <<>> ELSE <<" ">> \o JoinWords(rest)
         ELSE <<Head(text)>> \o JoinWords(Tail(text))

\* TelegramReminderService._normalize_assignee_name
NormalizeAssigneeName(name) == JoinWords(StripLeft(LowerText(name)))

\* needle in hay, for a needle that is not empty
Contains(hay, needle) ==
    \E i \in 1..(Len(hay) - Len(needle) + 1) : SubSeq(hay, i, i + Len(needle) - 1) = needle

\* no recipient (None) and no phone
NoRecipient == <<>>
NoPhone == ""

\* self.phone_mapping as _build_phone_mapping leaves it, in insertion
\* order: "alex" and "al" share one number, "bob" has another
phone_mapping ==
    <<[alias |-> <<"a", "l", "e", "x">>, phone |-> "+1"],
      [alias |-> <<"b", "o", "b">>, phone |-> "+2"],
      [alias |-> <<"a", "l">>, phone |-> "+1"]>>
PhoneAliases == {phone_mapping[i].alias : i \in DOMAIN phone_mapping}
\* self.phone_mapping.get(alias)
PhoneGet(alias) ==
    IF alias \in PhoneAliases
    THEN phone_mapping[CHOOSE i \in DOMAIN phone_mapping : phone_mapping[i].alias = alias].phone
    ELSE NoPhone

\* the assignee fields of the tasks: none, the placeholder, and names of
\* the phone table in another spelling (" Alex", "Bob  ")
AssigneeNames ==
    {<<>>, <<"-">>, <<" ", "A", "l", "e", "x">>, <<"B", "o", "b", " ", " ">>}
\* the descriptions: none, one without an alias, one naming Bob, one
\* naming Alex in capitals, one with Alex's short alias
Descriptions ==
    {<<>>, <<"p", "a", "y">>, <<"a", "s", "k", " ", "B", "o", "b">>,
     <<"A", "L", "E", "X", "!">>, <<"A", "l">>}

ReminderTask(task_id, assignee, description) ==
    [task_id |-> task_id, assignee |-> assignee, description |-> description]

\* a resolution that looks at the assignee field only
ResolveByAssigneeOnly(task) ==
    LET normalized == NormalizeAssigneeName(task.assignee)
    IN IF normalized # <<>> /\ normalized \in PhoneAliases THEN normalized ELSE NoRecipient

\* TelegramReminderService._resolve_twilio_recipient
ResolveTwilioRecipient(task) ==
    LET normalized == NormalizeAssigneeName(task.assignee)
        lowered == LowerText(task.description)
        hits == {i \in DOMAIN phone_mapping : Contains(lowered, phone_mapping[i].alias)}
        first == CHOOSE i \in hits : \A j \in hits : i <= j
    IN IF normalized # <<>> /\ normalized \in PhoneAliases THEN normalized
       ELSE IF task.description # <<>> /\ hits # {} THEN phone_mapping[first].alias
       \* the loop over the common names finds nothing the loop over the
       \* aliases has not found
       ELSE NoRecipient

\* _channel_enabled for the voice and SMS channels
ChannelEnabled(task) ==
    LET recipient == ResolveTwilioRecipient(task)
    IN recipient # NoRecipient /\ recipient \in PhoneAliases

\* a grouping that opens a bucket for every task
AddNewBucket(grouped, phone, task_id) ==
    Append(grouped, [phone |-> phone, tasks |-> <<task_id>>])

\* grouped.setdefault(phone, []).append(task): the buckets in insertion order
AddToBucket(grouped, phone, task_id) ==
    IF \E i \in DOMAIN grouped : grouped[i].phone = phone
    THEN [i \in DOMAIN grouped |->
            IF grouped[i].phone = phone
            THEN [grouped[i] EXCEPT !.tasks = Append(@, task_id)] ELSE grouped[i]]
    ELSE Append(grouped, [phone |-> phone, tasks |-> <<task_id>>])

\* the grouping loop of send_voice_reminders (assignees=None)
RECURSIVE GroupForVoice(_, _)
GroupForVoice(tasks, grouped) ==
    IF tasks = <<>> THEN grouped
    ELSE LET task == Head(tasks)
             normalized == NormalizeAssigneeName(task.assignee)
             recipient_alias == ResolveTwilioRecipient(task)
             phone_key == IF recipient_alias # NoRecipient THEN recipient_alias ELSE normalized
             phone1 == IF phone_key = <<>> THEN NoPhone ELSE PhoneGet(phone_key)
             phone == IF phone1 = NoPhone /\ recipient_alias # NoRecipient
                         /\ normalized # <<>> /\ normalized # recipient_alias
                      THEN PhoneGet(normalized) ELSE phone1
         IN GroupForVoice(Tail(tasks),
                          IF phone = NoPhone THEN grouped
                          ELSE AddToBucket(grouped, phone, task.task_id))

\* the grouping loop of send_sms_reminders; every task has the SMS channel
\* (channel_defaults)
RECURSIVE GroupForSms(_, _)
GroupForSms(tasks, grouped) ==
    IF tasks = <<>> THEN grouped
    ELSE LET task == Head(tasks)
             recipient == ResolveTwilioRecipient(task)
             phone == IF recipient = NoRecipient THEN NoPhone ELSE PhoneGet(recipient)
         IN GroupForSms(Tail(tasks),
                        IF phone = NoPhone THEN grouped
                        ELSE AddToBucket(grouped, phone, task.task_id))

\* the calls or messages one run places: one per bucket
Placed(grouped, ok) ==
    [i \in DOMAIN grouped |-> [phone |-> grouped[i].phone, tasks |-> grouped[i].tasks,
                               success |-> ok]]

\* the pending tasks with the fields the routing reads
PendingTasks(assignee, description) ==
    [i \in DOMAIN TaskOrder |->
        ReminderTask(TaskOrder[i], assignee[TaskOrder[i]], description[TaskOrder[i]])]

\* TelegramReminderService.send_voice_reminders over tasks with every
\* assignee field and description; callOk is what make_call reports
RouteVoice ==
    \E assignee \in [Tasks -> AssigneeNames], description \in [Tasks -> Descriptions],
       callOk \in BOOLEAN :
        LET pending == PendingTasks(assignee, description)
            tasks == SelectSeq(pending, ChannelEnabled)
            grouped == GroupForVoice(tasks, <<>>)
        IN /\ probe' = Probe("send_voice_reminders", Tasks, pending, "",
                             [deliveries |-> Placed(grouped, callOk), raised |-> FALSE])
           /\ UNCHANGED <<now, config, processVars, feed, poller, trackerVars, serviceVars, historyVars,
                          completed_tasks, cycles, last>>

\* TelegramReminderService.send_sms_reminders over the same tasks; what
\* send_sms reports goes to the statistics only
RouteSms ==
    \E assignee \in [Tasks -> AssigneeNames], description \in [Tasks -> Descriptions],
       smsOk \in {TRUE} :
        LET pending == PendingTasks(assignee, description)
            grouped == GroupForSms(pending, <<>>)
        IN /\ probe' = Probe("send_sms_reminders", Tasks, pending, "",
                             [deliveries |-> Placed(grouped, smsOk), raised |-> FALSE])
           /\ UNCHANGED <<now, config, processVars, feed, poller, trackerVars, serviceVars, historyVars,
                          completed_tasks, cycles, last>>

NextRouting == RouteVoice \/ RouteSms

\* Voice and SMS routing of the chat service over every pair of tasks
SpecRouting == InitCycle /\ [][NextRouting]_vars

\* --------------------------------------------------------- chat routing
\* no assignee id (None)
NoId == ""
\* self.assignee_chat_map_by_id and self.assignee_chat_map_by_name as
\* _build_assignee_chat_map leaves them: the keys of the second one are
\* normalized names, every value is a tuple of chat ids
assignee_chat_map_by_id == [id \in {"7"} |-> <<"chat0">>]
assignee_chat_map_by_name ==
    [name \in {<<"a", "l", "e", "x">>, <<"b", "o", "b">>} |->
        IF name = <<"b", "o", "b">> THEN <<"chat0", "chat1">> ELSE <<"chat1">>]
\* dict.get(key): the empty tuple stands for None
ChatsById(id) ==
    IF id \in DOMAIN assignee_chat_map_by_id THEN assignee_chat_map_by_id[id] ELSE <<>>
ChatsByName(name) ==
    IF name \in DOMAIN assignee_chat_map_by_name THEN assignee_chat_map_by_name[name] ELSE <<>>

\* a ReminderTask with its assignee id
ChatReminderTask(task_id, assignee, assignee_id, description) ==
    [assignee_id |-> assignee_id] @@ ReminderTask(task_id, assignee, description)

\* TelegramReminderService._chat_targets_for_task. The chat channel is
\* enabled for every task; the second spelling of the name "alex" the code
\* compares with is a byte sequence no assignee field holds.
ChatTargetsForTask(task) ==
    LET normalized_name == NormalizeAssigneeName(task.assignee)
        alex_chat == ChatsByName(<<"a", "l", "e", "x">>)
    IN IF task.assignee_id # NoId /\ ChatsById(task.assignee_id) # <<>>
       THEN ChatsById(task.assignee_id)
       ELSE IF normalized_name # <<>> /\ ChatsByName(normalized_name) # <<>>
       THEN ChatsByName(normalized_name)
       ELSE IF normalized_name = <<"a", "l", "e", "x">> /\ alex_chat # <<>>
       THEN alex_chat
       ELSE IF Contains(LowerText(task.description), <<"a", "l", "e", "x">>)
               /\ alex_chat # <<>>
       THEN alex_chat
       ELSE <<>>

\* deliveries.setdefault(chat, []).append(task): the buckets in insertion order
AddToChat(buckets, chat, task_id) ==
    IF \E i \in DOMAIN buckets : buckets[i].chat = chat
    THEN [i \in DOMAIN buckets |->
            IF buckets[i].chat = chat
            THEN [buckets[i] EXCEPT !.tasks = Append(@, task_id)] ELSE buckets[i]]
    ELSE Append(buckets, [chat |-> chat, tasks |-> <<task_id>>])

\* the inner loop of _group_tasks_by_chat: one task into each of its chats, once
RECURSIVE AddToChats(_, _, _, _)
AddToChats(buckets, chat_ids, seen, task_id) ==
    IF chat_ids = <<>> THEN buckets
    ELSE IF Head(chat_ids) = NoChat \/ Head(chat_ids) \in seen
         THEN AddToChats(buckets, Tail(chat_ids), seen, task_id)
         ELSE AddToChats(AddToChat(buckets, Head(chat_ids), task_id), Tail(chat_ids),
                         seen \cup {Head(chat_ids)}, task_id)

\* a grouping that puts a task without chat target into the first chat
RECURSIVE GroupUnresolvedIntoFirstChat(_, _)
GroupUnresolvedIntoFirstChat(tasks, buckets) ==
    IF tasks = <<>> THEN buckets
    ELSE LET chat_ids == ChatTargetsForTask(Head(tasks))
         IN GroupUnresolvedIntoFirstChat(Tail(tasks),
                AddToChats(buckets, IF chat_ids = <<>> THEN <<"chat0">> ELSE chat_ids,
                           {}, Head(tasks).task_id))

\* TelegramReminderService._group_tasks_by_chat
RECURSIVE GroupTasksByChat(_, _)
GroupTasksByChat(tasks, buckets) ==
    IF tasks = <<>> THEN buckets
    ELSE LET chat_ids == ChatTargetsForTask(Head(tasks))
         IN GroupTasksByChat(Tail(tasks),
                IF chat_ids = <<>> THEN buckets
                ELSE AddToChats(buckets, chat_ids, {}, Head(tasks).task_id))

\* deliveries.get(chat, [])
BucketOf(buckets, chat) ==
    IF \E i \in DOMAIN buckets : buckets[i].chat = chat
    THEN buckets[CHOOSE i \in DOMAIN buckets : buckets[i].chat = chat].tasks
    ELSE <<>>

\* TelegramReminderService._update_delivery_stats: the DeliveryStats it
\* stores in _last_delivery_stats
UpdateDeliveryStats(buckets, total_tasks, requested_chat, broadcast_all) ==
    LET delivered_ids == UNION {Range(buckets[i].tasks) : i \in DOMAIN buckets}
        delivered_tasks == Cardinality(delivered_ids)
    IN [total_tasks |-> total_tasks,
        delivered_tasks |-> delivered_tasks,
        missing_tasks |-> IF total_tasks - delivered_tasks > 0
                          THEN total_tasks - delivered_tasks ELSE 0,
        per_chat_counts |-> [i \in DOMAIN buckets |->
                                [chat |-> buckets[i].chat, count |-> Len(buckets[i].tasks)]],
        requested_chat |-> requested_chat,
        broadcast_all |-> broadcast_all]

\* the service state the dispatch works on and the task messages it has sent
DispatchState(default, cache, out, sent) ==
    [default |-> default, cache |-> cache, out |-> out, sent |-> sent]

\* TelegramReminderService._dispatch_tasks_to_chat; sendOk is what the
\* transport does with the first message (the empty-state text or the
\* preface), the task messages fail one by one and are not modelled apart
DispatchTasksToChat(st, chat, tasks, sendOk) ==
    IF chat = NoChat THEN st
    ELSE LET ensured == IF st.default = NoChat
                        THEN [st EXCEPT !.default = chat, !.cache = chat] ELSE st
         IN IF ~sendOk THEN ensured
            ELSE IF tasks = <<>>
            THEN [ensured EXCEPT !.out.messages[chat] = @ + 1]
            ELSE [ensured EXCEPT !.out.messages[chat] = @ + 1 + Len(tasks),
                                 !.sent = Append(@, [chat |-> chat, tasks |-> tasks])]

\* the loop over deliveries.items()
RECURSIVE DispatchAll(_, _, _)
DispatchAll(st, buckets, sendOk) ==
    IF buckets = <<>> THEN st
    ELSE DispatchAll(DispatchTasksToChat(st, Head(buckets).chat, Head(buckets).tasks, sendOk),
                     Tail(buckets), sendOk)

\* what one call of send_reminders leaves: the service state, the stats
\* and whether it raised
SendOutcome(st, stats, raised) == [st |-> st, stats |-> stats, raised |-> raised]

TaskIds(tasks) == [i \in DOMAIN tasks |-> tasks[i].task_id]

\* TelegramReminderService.send_reminders(chat_id, broadcast_all) over the
\* fetched tasks
SendRemindersOutcome(st, telegram_tasks, chat_id, broadcast_all, sendOk) ==
    IF chat_id # NoChat
    THEN IF broadcast_all
         THEN LET all == IF telegram_tasks = <<>> THEN <<>>
                         ELSE <<[chat |-> chat_id, tasks |-> TaskIds(telegram_tasks)]>>
              IN SendOutcome(DispatchTasksToChat(st, chat_id, TaskIds(telegram_tasks), sendOk),
                             UpdateDeliveryStats(all, Len(telegram_tasks), chat_id, TRUE),
                             FALSE)
         ELSE LET bucket == BucketOf(GroupTasksByChat(telegram_tasks, <<>>), chat_id)
                  filtered == IF bucket = <<>> THEN <<>>
                              ELSE <<[chat |-> chat_id, tasks |-> bucket]>>
              IN SendOutcome(DispatchTasksToChat(st, chat_id, bucket, sendOk),
                             UpdateDeliveryStats(filtered, Len(bucket), chat_id, FALSE),
                             FALSE)
    ELSE IF telegram_tasks = <<>>
    THEN SendOutcome(st, UpdateDeliveryStats(<<>>, 0, NoChat, TRUE), FALSE)
    ELSE LET buckets == GroupTasksByChat(telegram_tasks, <<>>)
         IN SendOutcome(DispatchAll(st, buckets, sendOk),
                        UpdateDeliveryStats(buckets, Len(telegram_tasks), NoChat, TRUE),
                        FALSE)

\* what the tracker reports of a task's assignee and description:
\* nobody; a placeholder name; a name of the chat table; a name with two
\* chats; an assignee id of the table; a description that names Alex; a
\* description that names somebody else
TaskProfiles ==
    {[assignee |-> <<>>, assignee_id |-> NoId, description |-> <<>>],
     [assignee |-> <<" ", "A", "l", "e", "x">>, assignee_id |-> NoId, description |-> <<>>],
     [assignee |-> <<"B", "o", "b", " ", " ">>, assignee_id |-> NoId, description |-> <<>>],
     [assignee |-> <<"B", "o", "b", " ", " ">>, assignee_id |-> "7", description |-> <<>>],
     [assignee |-> <<"-">>, assignee_id |-> "9",
      description |-> <<"A", "L", "E", "X", "!">>],
     [assignee |-> <<>>, assignee_id |-> NoId,
      description |-> <<"a", "s", "k", " ", "B", "o", "b">>]}

\* the fetched tasks with the fields the chat routing reads
ProfiledTasks(ids, profile) ==
    [i \in DOMAIN ids |->
        ChatReminderTask(ids[i], profile[ids[i]].assignee, profile[ids[i]].assignee_id,
                         profile[ids[i]].description)]

\* the ways send_reminders is called: by the bot at start (no chat), by a
\* /start message (a chat), by the sender script with --chat-id (a chat,
\* broadcast_all)
SendModes ==
    {[chat_id |-> NoChat, broadcast_all |-> FALSE],
     [chat_id |-> "chat0", broadcast_all |-> FALSE],
     [chat_id |-> "chat0", broadcast_all |-> TRUE]}

\* one call of TelegramReminderService.send_reminders
SendRemindersWith(fetchRes, mode, sendOk, profile) ==
    LET ids == FetchPendingTasks(fetchRes)
        telegram_tasks == ProfiledTasks(ids, profile)
        st0 == DispatchState(default_chat_id, chat_id_cache, chat_out, <<>>)
        res == SendRemindersOutcome(st0, telegram_tasks, mode.chat_id,
                                    mode.broadcast_all, sendOk)
    IN /\ cycles < MaxCycles
       /\ default_chat_id' = res.st.default
       /\ chat_id_cache' = res.st.cache
       /\ chat_out' = res.st.out
       /\ last_delivery_stats' =
             DeliveryStats(res.stats, recent_user_actions, recent_failed_actions)
       /\ probe' = Probe("send_reminders", Range(ids),
                         [tasks |-> telegram_tasks, chat_id |-> mode.chat_id,
                          broadcast_all |-> mode.broadcast_all, fetch |-> fetchRes], "",
                         [sent |-> res.st.sent, stats |-> res.stats, raised |-> res.raised])
       /\ cycles' = cycles + 1
       /\ UNCHANGED <<now, config, processVars, feed, poller, trackerVars, callback_log,
                      processed_callback_ids, recent_user_actions, recent_failed_actions,
                      historyVars, completed_tasks, last>>

\* send_reminders over every mode, tracker answer and pair of tasks
SendReminders ==
    \E fetchRes \in {"ok", "raise"}, mode \in SendModes, sendOk \in BOOLEAN,
       profile \in [Tasks -> TaskProfiles] :
        /\ \A t \in Tasks \ Range(FetchPendingTasks(fetchRes)) :
              profile[t] = CHOOSE p \in TaskProfiles : TRUE
        \* the transport is made to fail where several chats are written
        /\ (fetchRes = "raise" \/ FetchPendingTasks(fetchRes) = <<>> \/ mode.chat_id # NoChat)
              => sendOk
        /\ SendRemindersWith(fetchRes, mode, sendOk, profile)

NextChats == SendReminders \/ Tick

\* The chat reminder sender called again and again as the clock advances
SpecChats == InitCycle /\ [][NextChats]_vars

\* -------------------------------------------------------- the poll loop
\* updates the transport issues in one behaviour
MaxUpdates == 2

\* what a chat can send: a /help message, or a press of a button
Update(update_id, kind, cb) == [update_id |-> update_id, kind |-> kind, cb |-> cb]
UpdateKinds ==
    {[kind |-> "message", cb |-> ""], [kind |-> "callback_query", cb |-> "cb1"],
     [kind |-> "callback_query", cb |-> "cb2"]}
\* the chat the messages come from
MessageChat == "chat0"

\* the transport: a user's update gets the next id and waits in the feed
Arrive ==
    /\ \E k \in UpdateKinds :
          LET issued == Cardinality(UpdateIds(feed) \cup poller.earlier
                                    \cup UpdateIds(poller.updates))
          IN /\ issued < MaxUpdates
             /\ feed' = Append(feed, Update(issued + 1, k.kind, k.cb))
    /\ UNCHANGED <<now, config, processVars, poller, trackerVars, serviceVars, historyVars, cycleVars,
                   last>>

\* getUpdates of the transport: an offset confirms (drops) every update
\* below it; the call returns what is left, oldest first
Unconfirmed(updates, offset) ==
    IF offset = NoOffset THEN updates
    ELSE SelectSeq(updates, LAMBDA u : u.update_id >= offset)

\* offset = None before the while loop of main and of poll_updates_for
StartLoop ==
    /\ poller.pc = "down"
    /\ poller' = [PollerDown(poller) EXCEPT !.pc = "fetch"]
    /\ UNCHANGED <<now, config, processVars, feed, trackerVars, serviceVars, historyVars, cycleVars,
                   last>>

\* one get_updates of the loop: a failed request and an empty result leave
\* the loop where it is, a batch starts the for loop
GetUpdates ==
    /\ poller.pc = "fetch"
    /\ \E getOk \in BOOLEAN :
          IF ~getOk THEN UNCHANGED <<feed, poller>>
          ELSE LET updates == Unconfirmed(feed, poller.offset)
               IN /\ feed' = updates
                  /\ poller' = IF updates = <<>> THEN poller
                               ELSE [poller EXCEPT
                                       !.pc = "handle", !.updates = updates, !.index = 0,
                                       !.last_update_id = NoOffset,
                                       !.earlier = @ \cup UpdateIds(poller.updates)]
    /\ UNCHANGED <<now, config, processVars, trackerVars, serviceVars, historyVars, cycleVars, last>>

\* the loop after one update of the batch: the next update, or past the
\* for loop, where the offset becomes last_update_id + 1
AfterUpdate(p, update) ==
    LET passed == [p EXCEPT !.index = @ + 1, !.last_update_id = update.update_id,
                            !.handled = Append(@, update.update_id)]
    IN IF passed.index < Len(p.updates) THEN passed
       ELSE [passed EXCEPT !.pc = "fetch", !.offset = passed.last_update_id + 1]

\* the loop left by an exception of the handler: nothing catches it in
\* main, and poll_updates_for passes it to its caller
AfterRaise(p, update) ==
    [p EXCEPT !.pc = "crashed", !.last_update_id = update.update_id,
              !.handled = Append(@, update.update_id)]

\* the for loop at a button press: handle_callback
PollCallback ==
    /\ poller.pc = "handle"
    /\ poller.updates[poller.index + 1].kind = "callback_query"
    /\ \E trackerRes \in {"ok", "rejected"} :
          /\ CallbackEvent(poller.updates[poller.index + 1].cb).data[3] = "h"
                => trackerRes # "rejected"
          /\ HandleCallback(poller.updates[poller.index + 1].cb, trackerRes, "ok", TRUE)
    /\ poller' = AfterUpdate(poller, poller.updates[poller.index + 1])
    /\ feed' = feed

\* the for loop at a message: handle_message of a text that is no /start;
\* sendOk is what sendMessage does (raise_for_status raises when not)
PollMessage ==
    /\ poller.pc = "handle"
    /\ poller.updates[poller.index + 1].kind = "message"
    /\ Len(poller.handled) < MaxDeliveries
    /\ \E sendOk \in BOOLEAN :
          /\ chat_out' = IF sendOk THEN Sent(chat_out, MessageChat) ELSE chat_out
          /\ poller' = IF sendOk THEN AfterUpdate(poller, poller.updates[poller.index + 1])
                       ELSE AfterRaise(poller, poller.updates[poller.index + 1])
    /\ default_chat_id' = IF config.configured_default_chat = NoChat
                          THEN MessageChat ELSE default_chat_id
    /\ chat_id_cache' = IF config.configured_default_chat = NoChat
                        THEN MessageChat ELSE chat_id_cache
    /\ last' = LastOp("handle_message", "", "", {}, {}, <<>>)
    /\ UNCHANGED <<now, config, processVars, feed, trackerVars, callback_log, processed_callback_ids,
                   recent_user_actions, recent_failed_actions, last_delivery_stats,
                   historyVars, cycleVars>>

\* poll_updates_for reaches its deadline between two fetches
Deadline ==
    /\ poller.pc = "fetch"
    /\ poller' = PollerDown(poller)
    /\ UNCHANGED <<now, config, processVars, feed, trackerVars, serviceVars, historyVars, cycleVars,
                   last>>

\* the process is started again after the loop has crashed
BotRestart == poller.pc = "crashed" /\ Restart

NextPoll ==
    Arrive \/ StartLoop \/ GetUpdates \/ PollCallback \/ PollMessage \/ Deadline
        \/ BotRestart

\* The poll loop over a feed of messages and button presses
SpecPoll == InitCycle /\ [][NextPoll]_vars

\* ------------------------------------------------------ the cycle summary
\* core.telegram_utils.format_group_summary: the lines it writes about the
\* users' answers and the failed actions
FormatGroupSummary(stats) ==
    [user_actions |-> stats.user_actions, failed_actions |-> stats.failed_actions]

\* TelegramReminderService.generate_group_summary: None without statistics,
\* else the formatted summary; the method returns there, the statements
\* that follow the return are never executed
GenerateGroupSummary ==
    /\ last_delivery_stats # NoStats
    /\ probe' = Probe("generate_group_summary", {}, unreported, "",
                      FormatGroupSummary(last_delivery_stats))
    /\ last' = LastOp("generate_group_summary", "", "", {}, {}, <<>>)
    /\ unreported' = NothingUnreported
    /\ UNCHANGED <<now, config, processVars, feed, poller, trackerVars, serviceVars, deliveries, applied,
                   everSuccess, restartSeen, completed_tasks, cycles>>

\* the delivery cycle of the summary: send_reminders to the assignees' chats
SummaryCycle ==
    \E profile \in [Tasks -> {CHOOSE p \in TaskProfiles : p.assignee_id # NoId}] :
        SendRemindersWith("ok", [chat_id |-> NoChat, broadcast_all |-> FALSE], TRUE, profile)

\* a button press between the cycles: the tracker takes the write or rejects it
SummaryDeliver ==
    /\ \E cbid \in CallbackIds, trackerRes \in {"ok", "raise"} :
          HandleCallback(cbid, trackerRes, "ok", TRUE)
    /\ UNCHANGED <<feed, poller>>

NextSummary == SummaryCycle \/ SummaryDeliver \/ GenerateGroupSummary

\* Delivery cycles, button presses and summaries of one service instance
SpecSummary == InitCycle /\ [][NextSummary]_vars

\* ------------------------------------------------------- the audit check
\* max_entries of ensure_callback_comments
DefaultAuditEntries == 20

\* the loop over reversed(lines): for every task the last success entry,
\* until max_entries tasks are collected
RECURSIVE RecentEntries(_, _, _)
RecentEntries(file, recent, max_entries) ==
    IF file = <<>> \/ Cardinality(DOMAIN recent) >= max_entries THEN recent
    ELSE LET entry == file[Len(file)]
             rest == SubSeq(file, 1, Len(file) - 1)
         IN IF entry.result # "success" \/ entry.task_id \in DOMAIN recent
            THEN RecentEntries(rest, recent, max_entries)
            ELSE RecentEntries(rest,
                     [t \in DOMAIN recent \cup {entry.task_id} |->
                         IF t = entry.task_id THEN entry ELSE recent[t]],
                     max_entries)

\* the test of one comment text: the text holds the expected fragment
\* ("status updated through the Telegram bot") followed by ": " and the
\* status key of the entry. The writers' texts begin otherwise: the engine
\* writes "status updated through Reminder Engine: <status>", the postpone
\* writes "deadline moved through the Telegram bot ...".
CommentMatches(comment, entry) ==
    comment.source = "telegram" /\ comment.detail = entry.status_key

\* TelegramReminderService.ensure_callback_comments with one tracker
\* client; fetchOk is what fetch_comments does
EnsureCallbackComments ==
    \E fetchOk \in BOOLEAN :
        LET recent == IF config.log_path_set
                      THEN RecentEntries(callback_log, <<>>, DefaultAuditEntries)
                      ELSE <<>>
            missing == {t \in DOMAIN recent :
                           ~(fetchOk /\ \E i \in DOMAIN comments[t] :
                                            CommentMatches(comments[t][i], recent[t]))}
        IN /\ probe' = Probe("ensure_callback_comments", DOMAIN recent,
                             [fetch |-> fetchOk, entries |-> recent], "",
                             [raised |-> missing # {}, missing |-> missing])
           /\ last' = LastOp("ensure_callback_comments", "", "", {}, {}, <<>>)
           /\ UNCHANGED <<now, config, processVars, feed, poller, trackerVars, serviceVars, historyVars,
                          completed_tasks, cycles>>

\* the button presses the check looks back at
AuditDeliver ==
    /\ \E cbid \in CallbackIds, trackerRes \in {"ok", "raise"}, commentRes \in {"ok", "raise"} :
          /\ trackerRes # "ok" => commentRes = "ok"
          /\ HandleCallback(cbid, trackerRes, commentRes, TRUE)
    /\ UNCHANGED <<feed, poller>>

NextAudit == AuditDeliver \/ EnsureCallbackComments

\* Button presses and the audit check of one service instance
SpecAudit == InitCycle /\ [][NextAudit]_vars

\* ------------------------------------------------- the working-hours gate
\* the instants of the runs after Mon 11:00: the last minute of the window
\* (Mon 17:59), the end hour (Mon 18:00), the minute before the start
\* hour (Tue 09:59), the start hour (Tue 10:00), and an hour of the window
\* on a non-working day (Sat 11:00)
GateTimes ==
    {17 * 60 + 59, 18 * 60, MinutesPerDay + 9 * 60 + 59, MinutesPerDay + 10 * 60,
     5 * MinutesPerDay + 11 * 60}

\* run with and without the force flag at every instant
GateRun ==
    /\ cycles + deliveries < MaxCycles
    /\ \E force \in BOOLEAN :
         \/ Run(force, FALSE, "call_error", NoReply, AllOk, TRUE)
         \/ \E callOutcome \in CallOutcomes :
              \E reply \in (IF callOutcome = "transcribed" THEN CycleReplies ELSE {NoReply}) :
                 Run(force, TRUE, callOutcome, reply, AllOk, TRUE)

GateTick ==
    /\ \E t \in GateTimes : t > now /\ now' = t
    /\ last' = last
    /\ UNCHANGED <<config, processVars, feed, poller, trackerVars, serviceVars, historyVars, cycleVars>>

NextGate == GateRun \/ GateTick

\* Runs of the voice cycle around the edges of the working window
SpecGate == InitCycle /\ [][NextGate]_vars

\* ------------------------------------------------------------ properties
\* the success entries the log holds for one callback id
SuccessEntries(c) ==
    {i \in DOMAIN callback_log :
        callback_log[i].callback_id = c /\ callback_log[i].result = "success"}

\* C1: however often and in whatever order a callback id is delivered,
\* its status change or postponement is applied to the tracker once: no
\* callback id is ever applied a second time.
C1_OneApplicationPerCallback ==
    \A c \in CallbackIds : applied[c] <= 1

C4_DedupSurvivesRestart ==
    [][(deliveries' = deliveries + 1 /\ last'.cb \in restartSeen)
          => applied' = applied]_vars

\* the operations that place voice calls
CycleRunners == {"run", "send_voice_reminders"}

\* C5: when two runs of the cycle follow each other, the second places
\* no call that covers a task which is in the ledger after the first.
C5_NoSecondCallForCompleted ==
    [][(cycles' = cycles + 1 /\ last.op \in CycleRunners /\ last'.op \in CycleRunners)
          => last'.covered \cap DOMAIN completed_tasks = {}]_vars

\* C6: no due-task fetch returns a task whose id is in the ledger at the
\* time of the fetch.
C6_FetchExcludesCompleted ==
    [][cycles' = cycles + 1 => last'.fetched \cap DOMAIN completed_tasks = {}]_vars

\* C7: no operation changes the tracker status or the due date of a task
\* that has a ledger record when the operation starts.
C7_NoWriteAfterCompletion ==
    [][\A t \in DOMAIN completed_tasks :
          trackerStatus'[t] = trackerStatus[t] /\ trackerDue'[t] = trackerDue[t]]_vars

\* C8: _mark_task_completed for a task id that already has a record
\* leaves the ledger as it was, and after every _mark_task_completed the
\* task id is in the ledger.
C8_MarkCompletedIdempotent ==
    [][probe'.fn = "mark_task_completed" =>
          /\ probe'.ids \subseteq DOMAIN completed_tasks'
          /\ probe'.ids \subseteq DOMAIN completed_tasks
                => completed_tasks' = completed_tasks]_vars

\* C9: whatever the oracle does, both single-response classifiers return
\* one of the five labels.
C9_SingleClassifierTotal ==
    probe.fn \in {"analyze_response_with_ai", "analyze_status_with_openai"}
        => probe.label \in Labels

\* C10: whatever the oracle returns, analyze_batch_response returns a
\* mapping with an entry for every task id of the batch.
C10_BatchClassifierComplete ==
    probe.fn = "analyze_batch_response" =>
        /\ probe.result.kind = "object"
        /\ probe.ids \subseteq DOMAIN probe.result.entries

\* C11: under every configuration, the empty one included, every component
\* that applies statuses has a non-empty tracker status for each of the
\* five labels.
C11_StatusMappingTotal ==
    probe.fn = "status_mapping" => probe.label # ""

\* the update requests an operation sent for one task
UpdatesFor(op, t) == {i \in DOMAIN op.updates : op.updates[i].task = t}

\* C12: in a voice cycle that dispatched a batch, on every outcome path,
\* exactly one status update request is made for every task of the batch.
C12_OneUpdatePerTaskPerCycle ==
    [][(cycles' = cycles + 1 /\ last'.op = "run" /\ last'.fetched # {})
          => \A t \in last'.fetched : Cardinality(UpdatesFor(last', t)) = 1]_vars

\* the update requests of an operation that carry the label DONE
DoneUpdates(op) == {i \in DOMAIN op.updates : op.updates[i].label = "DONE"}

NextWorkingDayStart(at) == SkipToWorkingDay(DayStart(at) + MinutesPerDay) + StartHour * 60
\* The start hour of the day of at, when that day is a working day and
\* at is before it
SameDayStart(at) ==
    IF WeekdayOf(at) \in WorkingDays /\ at < DayStart(at) + StartHour * 60
    THEN {DayStart(at) + StartHour * 60} ELSE {}

\* C14: when NOT_DONE is written at an instant outside the working window
\* (before the start hour, at or after the end hour, or on a non-working
\* day), the due date is exactly the start hour of the next working day;
\* the start hour of the same day is accepted for an instant before it.
C14_NotDoneOutsideWindowRollsOver ==
    (probe.fn = "update_task_in_clickup" /\ probe.label = "NOT_DONE"
        /\ ~IsWorkingHours(probe.input[1]))
    => probe.result.due_date \in
           {NextWorkingDayStart(probe.input[1])} \cup SameDayStart(probe.input[1])

\* C15: every due date written for a label other than DONE lies inside the
\* working window: on a working day, at or after the start hour and before
\* the end hour.
C15_DueDateInsideWindow ==
    probe.fn = "update_task_in_clickup" => IsWorkingHours(probe.result.due_date)

\* C16: before the clamp the due date is the instant of the write plus
\* 60 minutes for IN_PROGRESS, plus 30 minutes for CALL_BACK, and for the
\* other labels plus one configured interval that the priority of the task
\* does not change.
C16_IntervalByLabelOnly ==
    probe.fn = "update_task_in_clickup" =>
        LET at == probe.input[1]
            cfg == probe.input[3]
        IN /\ probe.label = "IN_PROGRESS" => probe.result.next_reminder = at + 60
           /\ probe.label = "CALL_BACK" => probe.result.next_reminder = at + 30
           /\ probe.label \in {"NOT_DONE", "UNCLEAR"} =>
                  \A p \in Priorities :
                      AdvancedReminder(at, probe.label, cfg, p) = probe.result.next_reminder

\* an instant on a non-working day, before the start hour, or at or after
\* the end hour
OutsideWindow(at) ==
    \/ WeekdayOf(at) \notin WorkingDays
    \/ at % MinutesPerDay < StartHour * 60
    \/ at % MinutesPerDay >= EndHour * 60

\* C17: a run without the force flag at an instant outside the working
\* window (a non-working day, before the start hour, at or after the end
\* hour) fetches no task, places no call, issues no update and leaves the
\* tracker and the ledger as they were; a run with the force flag is never
\* refused by the gate.
C17_WorkingHoursGate ==
    [][(cycles' = cycles + 1 /\ last'.op = "run") =>
          /\ (~last'.force /\ OutsideWindow(now)) =>
                 /\ last'.fetched = {} /\ last'.covered = {} /\ last'.updates = <<>>
                 /\ UNCHANGED <<trackerVars, completed_tasks>>
          /\ last'.force => last'.outcome # "not_working_hours"]_vars

\* a run without the force flag at the end hour itself, refused although
\* t1 is overdue and not in the ledger
C17_Witness ==
    /\ last.op = "run" /\ ~last.force
    /\ now = 18 * 60
    /\ last.outcome = "not_working_hours"
    /\ trackerDue["t1"] <= now /\ "t1" \notin DOMAIN completed_tasks

\* the comments a step adds to a task
NewComments(t) == SubSeq(comments'[t], Len(comments[t]) + 1, Len(comments'[t]))

\* C18: when placing the batch call returns an error, every task of the
\* batch gets one update with NOT_DONE and one new comment that records
\* the error, and the run enters neither the settle wait nor the
\* recording poll.
C18_CallErrorFallback ==
    [][(cycles' = cycles + 1 /\ last'.op = "run" /\ last'.call = "call_error") =>
          /\ ~last'.polled
          /\ \A t \in last'.fetched :
                /\ \E i \in DOMAIN last'.updates :
                      /\ UpdatesFor(last', t) = {i}
                      /\ last'.updates[i].label = "NOT_DONE"
                /\ NewComments(t) = <<Comment("call", "error")>>]_vars

\* C19: when the call was placed and no recording is found, every task of
\* the batch gets one update with NOT_DONE that carries a new due date,
\* and one new comment that records the missing recording; the ledger
\* after the run is the ledger before it.
C19_NoRecordingFallback ==
    [][(cycles' = cycles + 1 /\ last'.op = "run" /\ last'.call = "no_recording") =>
          /\ completed_tasks' = completed_tasks
          /\ \A t \in last'.fetched :
                /\ \E i \in DOMAIN last'.updates :
                      /\ UpdatesFor(last', t) = {i}
                      /\ last'.updates[i].label = "NOT_DONE"
                      /\ last'.updates[i].due # NoDue
                /\ NewComments(t) = <<Comment("call", "no_recording")>>]_vars

\* C20: every delivery of a chat callback that ends with a success entry
\* for it in the decision log made one write to the tracker (the status or
\* the postponed due date) that succeeded and posted one audit comment on
\* the task before the entry was appended.
C20_SuccessEntryAfterWriteAndComment ==
    [][(/\ deliveries' = deliveries + 1
        /\ last'.op = "handle_callback" /\ last'.outcome = "success"
        /\ \E i \in DOMAIN callback_log' :
              /\ callback_log'[i].callback_id = CallbackEvent(last'.cb).id
              /\ callback_log'[i].result = "success")
          => /\ applied'[last'.cb] = applied[last'.cb] + 1
             /\ Len(NewComments(CallbackEvent(last'.cb).data[2])) = 1]_vars

\* a delivery of a callback that reached the tracker step
Handled == deliveries' = deliveries + 1 /\ last'.op = "handle_callback"
              /\ last'.outcome \in {"success", "error"}

\* C21: when the status write or the postpone update of a chat callback
\* fails, the delivery ends with result error: the entry appended to the
\* decision log is an error entry for that callback, not a success entry,
\* and one message goes to the summary chat.
C21_FailedWriteLoggedAsError ==
    [][(Handled /\ applied'[last'.cb] = applied[last'.cb]) =>
          /\ last'.outcome = "error"
          /\ config.log_path_set =>
                /\ callback_log' # <<>>
                /\ callback_log'[Len(callback_log')].callback_id = CallbackEvent(last'.cb).id
                /\ callback_log'[Len(callback_log')].result = "error"
          /\ chat_out'.messages[config.group_chat_id]
                = chat_out.messages[config.group_chat_id] + 1]_vars

\* the entries of the log for callback id c with result error
ErrorEntries(c) ==
    {i \in DOMAIN callback_log :
        callback_log[i].callback_id = c /\ callback_log[i].result = "error"}

\* C22: an event that ended with result error is not retried by the
\* service (between deliveries nothing is written to the tracker or the
\* log) and is not remembered as processed: the processed ids are ids that
\* got a success entry, after a restart too, and a delivery of an id that
\* never got one is handled again, never absorbed as a duplicate.
C22_ErrorIsNotProcessed ==
    [][/\ processed_callback_ids' \subseteq everSuccess'
       /\ (deliveries' = deliveries + 1 /\ last'.cb \notin everSuccess)
              => last'.outcome # "duplicate"
       /\ deliveries' = deliveries
              => UNCHANGED <<trackerVars, applied, callback_log>>]_vars

\* the postpone press failed and was logged with result error, the same
\* press was delivered again and this time applied and logged as success
C22_Witness ==
    /\ last.op = "handle_callback" /\ last.cb = "cb2" /\ last.outcome = "success"
    /\ applied["cb2"] = 1
    /\ \E i \in ErrorEntries("cb2"), j \in SuccessEntries("cb2") : i < j

Max(a, b) == IF a >= b THEN a ELSE b

\* C23: a postpone press that is applied writes the later of the existing
\* due date and now, plus the hours of the button, as the new due date,
\* which is therefore later than now; it posts one audit comment, leaves
\* the status of the task alone and calls no classifier.
C23_PostponeFromLaterOfDueAndNow ==
    [][(/\ Handled /\ last'.outcome = "success"
        /\ CallbackEvent(last'.cb).data[3] = "h"
        /\ applied'[last'.cb] = applied[last'.cb] + 1)
          => LET task_id == CallbackEvent(last'.cb).data[2]
                 hours == status_action_map["h"].postpone_hours
             IN /\ trackerDue'[task_id] = Max(trackerDue[task_id], now) + hours * 60
                /\ trackerDue'[task_id] > now
                /\ Len(NewComments(task_id)) = 1
                /\ trackerStatus' = trackerStatus
                /\ probe' = probe]_vars

\* C24: when the status was written and posting the audit comment fails,
\* the status stays as written and the status update still reports
\* success.
C24_CommentFailureKeepsSuccess ==
    (probe.fn = "update_task_status" /\ probe.input = <<"ok", "raise">>)
    => /\ \A t \in probe.ids : trackerStatus[t] = probe.label
       /\ probe.result = TRUE

\* C25: when a request of the due-task fetch fails, the fetch returns no
\* task and the cycle ends as a cycle without tasks: no call is placed,
\* no update is sent, the tracker and the ledger stay as they were.
C25_FetchFailureIsEmptyCycle ==
    [][(cycles' = cycles + 1 /\ last'.op \in CycleRunners /\ last'.fetch = "failed") =>
          /\ last'.outcome = "no_tasks"
          /\ last'.fetched = {} /\ last'.covered = {} /\ last'.updates = <<>>
          /\ UNCHANGED <<trackerVars, completed_tasks>>]_vars

\* the fetch of a run failed while t1 was overdue and not in the ledger
C25_Witness ==
    /\ last.op = "run" /\ last.fetch = "failed" /\ last.outcome = "no_tasks"
    /\ trackerDue["t1"] # NoDue /\ trackerDue["t1"] <= now
    /\ "t1" \notin DOMAIN completed_tasks

\* the updates of an operation whose request raised
RaisedUpdates(op) == {i \in DOMAIN op.updates : op.updates[i].result = "raise"}

\* C26: when the status update of one task raises during a run, every
\* other task the run fetched still gets its update and its comment in
\* that run.
C26_FailureIsolatedPerTask ==
    [][(cycles' = cycles + 1 /\ last'.op = "run" /\ RaisedUpdates(last') # {}) =>
          \A t \in last'.fetched :
              \/ \E i \in RaisedUpdates(last') : last'.updates[i].task = t
              \/ /\ UpdatesFor(last', t) # {}
                 /\ Len(NewComments(t)) = 1]_vars

\* the deliveries of the routed operation that name task t
DeliveriesFor(t) ==
    {i \in DOMAIN probe.result.deliveries :
        \E k \in DOMAIN probe.result.deliveries[i].tasks :
            probe.result.deliveries[i].tasks[k] = t}

\* the aliases of the phone table that occur in the description of task
AliasesIn(task) ==
    {a \in PhoneAliases : Contains(LowerText(task.description), a)}

\* C27: the phone of a task is the phone of its normalized assignee name
\* when the phone table has that name; otherwise the phone of an alias of
\* the table that occurs in the description; otherwise the task has no
\* phone, is in no call and no message, and the operation does not raise.
C27_PhoneFallbackChain ==
    probe.fn \in {"send_voice_reminders", "send_sms_reminders"} =>
        /\ ~probe.result.raised
        /\ \A k \in DOMAIN probe.input :
              LET task == probe.input[k]
                  name == NormalizeAssigneeName(task.assignee)
                  to == {probe.result.deliveries[i].phone : i \in DeliveriesFor(task.task_id)}
              IN /\ Cardinality(DeliveriesFor(task.task_id)) <= 1
                 /\ IF name \in PhoneAliases THEN to = {PhoneGet(name)}
                    ELSE IF AliasesIn(task) # {}
                         THEN \E a \in AliasesIn(task) : to = {PhoneGet(a)}
                         ELSE to = {}

\* one task without assignee is routed by the alias in its description,
\* the other has neither and is left out; the call was placed
C27_Witness ==
    /\ probe.fn = "send_voice_reminders"
    /\ \E k \in DOMAIN probe.input :
          /\ NormalizeAssigneeName(probe.input[k].assignee) \notin PhoneAliases
          /\ AliasesIn(probe.input[k]) # {}
          /\ DeliveriesFor(probe.input[k].task_id) # {}
    /\ \E k \in DOMAIN probe.input :
          /\ NormalizeAssigneeName(probe.input[k].assignee) \notin PhoneAliases
          /\ AliasesIn(probe.input[k]) = {}
          /\ DeliveriesFor(probe.input[k].task_id) = {}

\* a task the chat tables say nothing about: its assignee id is not in the
\* id table, its normalized name is not in the name table, and its
\* description does not name Alex
NoChatTarget(task) ==
    /\ task.assignee_id \notin DOMAIN assignee_chat_map_by_id
    /\ NormalizeAssigneeName(task.assignee) \notin DOMAIN assignee_chat_map_by_name
    /\ ~Contains(LowerText(task.description), <<"a", "l", "e", "x">>)

\* the tasks of the last send_reminders call without chat target
Unresolved(p) == {k \in DOMAIN p.input.tasks : NoChatTarget(p.input.tasks[k])}

VoiceRecipients ==
    {ResolveTwilioRecipient(probe.input[k]) : k \in DOMAIN probe.input} \ {NoRecipient}

\* the tasks of the last voice run whose recipient has the given phone
TasksOfPhone(phone) ==
    {probe.input[k].task_id : k \in {j \in DOMAIN probe.input :
        /\ ResolveTwilioRecipient(probe.input[j]) # NoRecipient
        /\ PhoneGet(ResolveTwilioRecipient(probe.input[j])) = phone}}

\* C29: one run of the voice reminders places at most one call per phone
\* number, the call to a phone covers every fetched task whose recipient
\* has that phone and no other task, and there are no more calls than
\* recipients with a fetched task.
C29_OneCallPerRecipientPhone ==
    probe.fn = "send_voice_reminders" =>
        LET calls == probe.result.deliveries
        IN /\ \A i, j \in DOMAIN calls : calls[i].phone = calls[j].phone => i = j
           /\ \A i \in DOMAIN calls :
                 /\ Range(calls[i].tasks) = TasksOfPhone(calls[i].phone)
                 /\ Len(calls[i].tasks) = Cardinality(TasksOfPhone(calls[i].phone))
           /\ \A r \in VoiceRecipients : \E i \in DOMAIN calls : calls[i].phone = PhoneGet(r)
           /\ Len(calls) <= Cardinality(VoiceRecipients)

\* two tasks of two aliases that share a phone number went into one call
C29_Witness ==
    /\ probe.fn = "send_voice_reminders"
    /\ Cardinality(VoiceRecipients) = 2
    /\ Len(probe.result.deliveries) = 1
    /\ Len(probe.result.deliveries[1].tasks) = 2

\* the loop passes an update to its handler
Handles == Len(poller'.handled) = Len(poller.handled) + 1
\* the loop fetches a batch that is not empty
Fetches == poller.pc = "fetch" /\ poller'.pc = "handle"
\* the for loop over a batch ends, by its last update or by an exception
BatchEnds == poller.pc = "handle" /\ Handles /\ poller'.pc # "handle"

\* C30: the poll loop passes the updates of a batch to the handlers in the
\* order of the feed; when the for loop over a batch ends, however the
\* handlers ended, the loop is about to fetch with offset = id of the last
\* update of the batch + 1; and a fetch returns no update that an earlier
\* batch returned.
C30_OffsetPastEveryBatch ==
    [][/\ Handles =>
             /\ poller'.handled[Len(poller'.handled)]
                   = poller.updates[poller.index + 1].update_id
             /\ \A i \in 1..poller.index :
                   poller.updates[i].update_id < poller.updates[poller.index + 1].update_id
       /\ BatchEnds =>
             /\ poller'.pc = "fetch"
             /\ poller'.offset = poller.updates[Len(poller.updates)].update_id + 1
       /\ Fetches => UpdateIds(poller'.updates) \cap poller'.earlier = {}]_vars

\* a summary is generated
Summarizes == last'.op = "generate_group_summary" /\ probe'.fn = "generate_group_summary"
                 /\ (probe' # probe \/ last' # last)

\* C31: when a summary has been generated the collected user-action and
\* failed-action lists are empty, in the service and in its statistics, and
\* the summary reports exactly the actions registered since the summary
\* before it, so no action is reported twice.
C31_SummaryClearsActions ==
    [][Summarizes =>
          /\ recent_user_actions' = <<>>
          /\ recent_failed_actions' = <<>>
          /\ last_delivery_stats'.user_actions = <<>>
          /\ last_delivery_stats'.failed_actions = <<>>
          /\ probe'.result.user_actions = unreported.user_actions
          /\ probe'.result.failed_actions = unreported.failed_actions]_vars

\* the audit comment the code posts for a logged success entry is among
\* the comments of its task: the engine's comment with the mapped status
\* for a status change, the postpone comment for a postpone
AuditCommentPosted(entry, cmts) ==
    \E i \in DOMAIN cmts :
        IF entry.status_key = "POSTPONE" THEN cmts[i].source = "postpone"
        ELSE cmts[i] = Comment("engine", TelegramStatusMapping(entry.status_key))

\* the audit check has run
Audits == last'.op = "ensure_callback_comments" /\ probe'.fn = "ensure_callback_comments"
             /\ (probe' # probe \/ last' # last)

\* C32: the audit check, when the comments can be read, raises exactly when
\* one of the most recent successful callbacks lacks its audit comment, the
\* error names every such task and no other, and the check writes neither
\* to the tracker nor to the log.
C32_AuditRaisesIffCommentAbsent ==
    [][(Audits /\ probe'.input.fetch) =>
          /\ probe'.result.missing =
                {t \in probe'.ids : ~AuditCommentPosted(probe'.input.entries[t], comments[t])}
          /\ probe'.result.raised = (probe'.result.missing # {})
          /\ UNCHANGED <<trackerVars, callback_log>>]_vars

\* ------------------------------------------------------------- SMS replies
\* an inbound SMS of the form "ordinal. text" whose ordinal is in the code
\* file has been processed
SmsWithIssuedOrdinal ==
    /\ probe.fn = "process_sms_message"
    /\ probe.input.formOk
    /\ probe.input.code \in DOMAIN SmsCodes

\* C33: an inbound SMS of the form "ordinal. text" whose ordinal was issued
\* leads to exactly one classification of the text, one status application
\* to the mapped task and one confirmation SMS; a body of another form or
\* an unknown ordinal causes no tracker write and no confirmation.
C33_IssuedOrdinalAppliesAndConfirms ==
    probe.fn = "process_sms_message" =>
        IF SmsWithIssuedOrdinal
        THEN /\ probe.result.classified = 1
             /\ Len(last.updates) = 1
             /\ last.updates[1].task = SmsCodes[probe.input.code]
             /\ probe.result.confirmations = 1
        ELSE /\ last.updates = <<>>
             /\ probe.result.confirmations = 0

\* ------------------------------------------------- labels without a status
\* C34: classification ambiguity never blocks status application: for
\* every label handed to update_task_in_clickup, UNCLEAR and any oracle
\* output outside the five labels included, the tracker update that is
\* sent carries a status value.
C34_EveryUpdateCarriesStatus ==
    \A i \in DOMAIN last.updates : last.updates[i].status # ""

\* ------------------------------------------------- failed transcription
\* C35: in the voice batch flow, when the recording was downloaded but the
\* transcription fails with status ERROR, every task of the batch is
\* updated with UNCLEAR, not with NOT_DONE.
C35_TranscriptionErrorGivesUnclear ==
    (last.op = "run" /\ last.outcome = "transcription_error") =>
        \A i \in DOMAIN last.updates : last.updates[i].label = "UNCLEAR"

\* ------------------------------------------------ ledger and tracker write
\* the step sent an update that set the task to its completed status and
\* the tracker accepted it
CompletedWriteSucceeded(op, task_id) ==
    \E i \in DOMAIN op.updates :
        /\ op.updates[i].task = task_id
        /\ op.updates[i].label = "DONE"
        /\ op.updates[i].result = "ok"

\* C36: a task id enters the completion ledger only if a tracker write
\* setting that task to its completed status succeeded; a DONE update
\* whose tracker request fails or raises leaves the ledger without the id.
C36_LedgerOnlyAfterSuccessfulWrite ==
    [][\A t \in Tasks :
          (t \in DOMAIN completed_tasks' /\ t \notin DOMAIN completed_tasks)
              => CompletedWriteSucceeded(last', t)]_vars

\* ------------------------------------------------------ ledger growth
\* C37: the ledger is append-only across _mark_task_completed and
\* _is_task_completed, also when reading the ledger file fails during
\* the operation: the set of recorded ids never shrinks.
C37_LedgerNeverShrinks ==
    [][DOMAIN completed_tasks \subseteq DOMAIN completed_tasks']_vars

\* ---------------------------------------------------- concurrent writers
\* C38: when two processes run _mark_task_completed for different task
\* ids with their loads and saves interleaved, both ids are in the ledger
\* once both have finished.
C38_NoLostLedgerUpdate ==
    (\A p \in Procs : writers[p].pc = "finished")
        => \A p \in Procs : WriterTask[p] \in DOMAIN completed_tasks

\* ------------------------------------------------- two service instances
\* C39: two service instances that share the decision log never both apply
\* the status change of one callback id: once one of them has logged the
\* id with result success, a delivery of that id to either instance is
\* absorbed as a duplicate and applies nothing.
C39_SharedLogDedupsAcrossInstances ==
    [][(deliveries' = deliveries + 1 /\ last'.cb \in SuccessIds(callback_log))
          => (last'.outcome = "duplicate" /\ applied' = applied)]_vars

\* ------------------------------------------------- successive poll runs
\* C40: across successive invocations of poll_updates_for every update is
\* handled at most once: an update handled in the last batch of one
\* invocation is not fetched and handled again by the next one.
C40_UpdateHandledAtMostOnce ==
    \A i, j \in DOMAIN poller.handled :
        poller.handled[i] = poller.handled[j] => i = j

====
